---------------------------- MODULE Spec2Model ----------------------------
(***************************************************************************)
(* Model of src/acvp_hash.c (libacvp): the hash vector-set handler         *)
(* acvp_hash_kat_handler, the test-context routines acvp_hash_init_tc and  *)
(* acvp_hash_release_tc, the response encoders acvp_hash_output_tc and     *)
(* acvp_hash_output_mct_tc, and the three Monte Carlo engines              *)
(* acvp_hash_mct_tc, acvp_hash_sha3_mct and acvp_hash_shake_mct.           *)
(*                                                                         *)
(* Buffers are byte arrays of their allocated capacity (a sequence of      *)
(* bytes, <<>> for a NULL pointer) with the length fields kept apart, as   *)
(* in ACVP_HASH_TC.  The loop counts and the buffer sizes of acvp.h are    *)
(* scaled down; every formula below is written against their names.       *)
(***************************************************************************)
EXTENDS Integers, Sequences, FiniteSets, TLC

(***************************************************************************)
(* Sizes of acvp.h, scaled.                                                *)
(***************************************************************************)
ACVP_HASH_MCT_OUTER == 2

ACVP_HASH_MCT_INNER == 3

ACVP_HASH_MD_BYTE_MAX == 4

ACVP_HASH_MSG_BYTE_MAX == 6

ACVP_SHAKE_MSG_BYTE_MAX == 18

ACVP_HASH_XOF_MD_BYTE_MAX == 18

ACVP_HASH_XOF_MD_BIT_MIN == 16

ACVP_HASH_MD_STR_MAX == 2 * ACVP_HASH_MD_BYTE_MAX

ACVP_HASH_MSG_STR_MAX == 2 * ACVP_HASH_MSG_BYTE_MAX

ACVP_SHAKE_MSG_STR_MAX == 2 * ACVP_SHAKE_MSG_BYTE_MAX

ACVP_HASH_XOF_MD_STR_MAX == 2 * ACVP_HASH_XOF_MD_BYTE_MAX

ACVP_HASH_XOF_MD_BIT_MAX == 8 * ACVP_HASH_XOF_MD_BYTE_MAX

\* unsigned int leftmost_bytes = 16;
leftmost_bytes == 16

\* modulus of unsigned int arithmetic, scaled from 2^32 to 2^24: like 2^32 it
\* exceeds every uint16_t value and every length of the model
UINT_MOD == 16777216

(***************************************************************************)
(* Bounds of the explored inputs.                                          *)
(***************************************************************************)
\* digest length in bytes of the fixed-output engine under test
DigestLen == 2

\* groups per vector set, test cases per group
MaxGroups == 2

MaxTests == 2

(***************************************************************************)
(* Result codes (ACVP_RESULT).                                             *)
(***************************************************************************)
ACVP_SUCCESS == "ACVP_SUCCESS"

ACVP_MALLOC_FAIL == "ACVP_MALLOC_FAIL"

ACVP_MALFORMED_JSON == "ACVP_MALFORMED_JSON"

ACVP_MISSING_ARG == "ACVP_MISSING_ARG"

ACVP_INVALID_ARG == "ACVP_INVALID_ARG"

ACVP_TC_MISSING_DATA == "ACVP_TC_MISSING_DATA"

ACVP_TC_INVALID_DATA == "ACVP_TC_INVALID_DATA"

ACVP_CRYPTO_MODULE_FAIL == "ACVP_CRYPTO_MODULE_FAIL"

ACVP_INTERNAL_ERR == "ACVP_INTERNAL_ERR"

ACVP_DATA_TOO_LARGE == "ACVP_DATA_TOO_LARGE"

ACVP_UNSUPPORTED_OP == "ACVP_UNSUPPORTED_OP"

(***************************************************************************)
(* Algorithms and tags.                                                    *)
(***************************************************************************)
Algs == {"SHA2-256", "SHA3-256", "SHAKE-128"}

IsSha3(a) == a = "SHA3-256"

IsShake(a) == a = "SHAKE-128"

NULL == "NULL"

ACVP_HASH_TEST_TYPE_AFT == "AFT"

ACVP_HASH_TEST_TYPE_MCT == "MCT"

ACVP_HASH_TEST_TYPE_VOT == "VOT"

ACVP_HASH_TEST_TYPE_LDT == "LDT"

ACVP_HASH_MCT_VERSION_STANDARD == "standard"

ACVP_HASH_MCT_VERSION_ALTERNATE == "alternate"

\* variant: an unrecognised tag is read as AFT
read_test_type_lenient(tt_str) ==
    IF tt_str \in {"MCT", "AFT", "VOT", "LDT"} THEN tt_str ELSE "AFT"

\* read_test_type: 0 for an unrecognised tag
read_test_type(tt_str) ==
    IF tt_str \in {"MCT", "AFT", "VOT", "LDT"} THEN tt_str ELSE "0"

\* read_mct_version: -1 for an unrecognised tag
read_mct_version(mct_str) ==
    IF mct_str \in {"standard", "alternate"} THEN mct_str ELSE "-1"

\* read_exp_method: 0 for anything but "repeating"
read_exp_method(exp_str) ==
    IF exp_str = "repeating" THEN "repeating" ELSE "0"

(***************************************************************************)
(* Bytes, buffers and the safe-C memory primitives.                        *)
(***************************************************************************)
Min(a, b) == IF a < b THEN a ELSE b

Zeros(n) == [k \in 1..n |-> 0]

Take(s, n) == SubSeq(s, 1, Min(n, Len(s)))

\* calloc(1, n): a zeroed buffer of n bytes
calloc(n) == Zeros(n)

\* memzero_s(dest, len)
memzero_s(dest, n) == [k \in 1..Len(dest) |-> IF k <= n THEN 0 ELSE dest[k]]

\* memcpy_s(dest, dmax, src, smax): rc = 0 on success; on smax = 0 or
\* smax > dmax the first dmax bytes of dest are cleared and rc # 0
memcpy_s(dest, dmax, src, smax) ==
    IF Len(dest) = 0 \/ dmax = 0 THEN [rc |-> 1, buf |-> dest]
    ELSE IF smax = 0 \/ smax > dmax THEN [rc |-> 1, buf |-> memzero_s(dest, dmax)]
    ELSE [rc |-> 0,
          buf |-> [k \in 1..Len(dest) |-> IF k <= smax THEN src[k] ELSE dest[k]]]

(***************************************************************************)
(* Hex codec (acvp_hexstr_to_bin, acvp_bin_to_hexstr).  A hex string is a  *)
(* sequence of digits 0..15.                                               *)
(***************************************************************************)
\* decode: fails on an odd length or when the bytes exceed dest_max
acvp_hexstr_to_bin(src, dest, dest_max) ==
    IF Len(src) % 2 = 1 THEN [rv |-> ACVP_INVALID_ARG, buf |-> dest]
    ELSE IF Len(src) \div 2 > dest_max THEN [rv |-> ACVP_DATA_TOO_LARGE, buf |-> dest]
    ELSE [rv |-> ACVP_SUCCESS,
          buf |-> [k \in 1..Len(dest) |->
                     IF 2 * k <= Len(src) THEN 16 * src[2 * k - 1] + src[2 * k]
                     ELSE dest[k]]]

\* encode: fails when 2 * src_len exceeds dest_max
acvp_bin_to_hexstr(src, src_len, dest_max) ==
    IF 2 * src_len > dest_max THEN [rv |-> ACVP_DATA_TOO_LARGE, str |-> <<>>]
    ELSE [rv |-> ACVP_SUCCESS,
          str |-> [k \in 1..(2 * src_len) |->
                     IF k % 2 = 1 THEN src[(k + 1) \div 2] \div 16
                     ELSE src[k \div 2] % 16]]

\* what the server decodes from a hex string
HexToBytes(h) == [k \in 1..(Len(h) \div 2) |-> 16 * h[2 * k - 1] + h[2 * k]]

(***************************************************************************)
(* The hash engine under test (cap->crypto_handler): a deterministic toy   *)
(* digest of the message bytes, of the requested length.                   *)
(***************************************************************************)
RECURSIVE WSum(_, _)
WSum(m, k) == IF k = 0 THEN 0 ELSE (k + 2) * m[k] + WSum(m, k - 1)

H(s, m, outlen) ==
    [k \in 1..outlen |-> (s + 11 * Len(m) + WSum(m, Len(m)) + 37 * k * k + 101 * k) % 256]


(***************************************************************************)
(* State.                                                                  *)
(*   env   the run's fixed inputs: algorithm, engine variant, host byte    *)
(*         order, signedness the build gives ACVP_HASH_MCT_VERSION, number *)
(*         of groups (g_cnt)                                               *)
(*   doc   the part of the vector set read so far                          *)
(*   h     locals of acvp_hash_kat_handler                                 *)
(*   js    the response document under construction and the state of its   *)
(*         JSON values (none, live, owned by a parent, freed)              *)
(*   stc   the test context ACVP_HASH_TC                                   *)
(*   mct   locals of the running MCT engine                                *)
(*   gh    observations: engine calls, context buffers on the heap         *)
(***************************************************************************)
VARIABLES env, doc, h, js, stc, mct, gh

vars == <<env, doc, h, js, stc, mct, gh>>

\* memzero_s(stc, sizeof(ACVP_HASH_TC))
ZeroStc ==
    [msg |-> <<>>, msg_len |-> 0, md |-> <<>>, md_len |-> 0,
     m1 |-> <<>>, m1_len |-> 0, m2 |-> <<>>, m2_len |-> 0, m3 |-> <<>>, m3_len |-> 0,
     xof_len |-> 0, xof_bit_len |-> 0, tc_id |-> 0, cipher |-> "0", test_type |-> "0",
     mct_version |-> "0", exp_len |-> 0, exp_method |-> "0"]

NoRec == [md |-> <<>>, outLen |-> -1, set |-> FALSE]

NoMct ==
    [i |-> 0, j |-> 0, seed |-> "msg", seed_len |-> 0, mct_buffer_size |-> 0,
     initial_seed_len |-> 0, min_xof_bytes |-> 0, max_xof_bytes |-> 0, range |-> 0,
     rv |-> ACVP_SUCCESS]

(***************************************************************************)
(* The explored vector sets.  A hex message of n digits whose digits       *)
(* depend on the position; NULL stands for an absent member, 0 for an      *)
(* absent number (json_object_get_number).                                 *)
(***************************************************************************)
HexMsg(n) == [k \in 1..n |-> (5 * k + 3) % 16]

\* byte lengths of the well-formed messages offered for an algorithm
MsgByteLens(a, wide) ==
    IF wide THEN {1}
    ELSE IF IsShake(a) THEN {0, 1, leftmost_bytes + 1}
    ELSE {0, 1, DigestLen, ACVP_HASH_MD_BYTE_MAX + 1}

\* messages: well-formed ones, one of odd length, one beyond the maximum, absent
MsgStrMax(a) == IF IsShake(a) THEN ACVP_SHAKE_MSG_STR_MAX ELSE ACVP_HASH_MSG_STR_MAX

Msgs(a, wide) ==
    {HexMsg(2 * n) : n \in MsgByteLens(a, wide)}
      \cup {HexMsg(3), HexMsg(MsgStrMax(a) + 1)}

\* output lengths in bits offered for minOutLen, maxOutLen and outLen
MinOutLens(wide) ==
    IF wide THEN {ACVP_HASH_XOF_MD_BIT_MIN}
    ELSE {0, ACVP_HASH_XOF_MD_BIT_MIN, ACVP_HASH_XOF_MD_BIT_MIN + 4,
          2 * ACVP_HASH_XOF_MD_BIT_MIN, ACVP_HASH_XOF_MD_BIT_MAX + 8}

MaxOutLens(wide) ==
    IF wide THEN {2 * ACVP_HASH_XOF_MD_BIT_MIN}
    ELSE {0, 8, ACVP_HASH_XOF_MD_BIT_MIN, ACVP_HASH_XOF_MD_BIT_MIN + 8,
          2 * ACVP_HASH_XOF_MD_BIT_MIN, ACVP_HASH_XOF_MD_BIT_MAX - 8,
          ACVP_HASH_XOF_MD_BIT_MAX, ACVP_HASH_XOF_MD_BIT_MAX + 8}

OutLens(wide) ==
    IF wide THEN {ACVP_HASH_XOF_MD_BIT_MIN}
    ELSE {0, ACVP_HASH_XOF_MD_BIT_MIN, ACVP_HASH_XOF_MD_BIT_MIN + 4,
          8 * ACVP_HASH_MD_BYTE_MAX + 8, ACVP_HASH_XOF_MD_BIT_MAX,
          ACVP_HASH_XOF_MD_BIT_MAX + 8}

\* identifiers: in a wide document every group and every test case has its
\* own (i, j: the position in the document); 0 is an absent identifier
TgIds(wide, i) == IF wide THEN {i + 1} ELSE {5, 6}

TcIds(wide, i, j) == IF wide THEN {MaxTests * i + j + 1} ELSE {7}

\* a group as the handler reads it; members the handler does not read for
\* the group's type keep their absent value
GroupInputs(a, wide, i) ==
    LET base == [tgId |-> IF wide THEN i + 1 ELSE 5, testType |-> NULL, minOutLen |-> 0, maxOutLen |-> 0,
                 mctVersion |-> NULL, t_cnt |-> 0]
        cnts == IF wide THEN 0..MaxTests ELSE {1}
        plain == {[base EXCEPT !.tgId = g, !.testType = tt, !.t_cnt = c] :
                     g \in TgIds(wide, i), tt \in {"AFT", "VOT", "LDT"}, c \in cnts}
        bad == {[base EXCEPT !.tgId = 0], base, [base EXCEPT !.testType = "KAT"]}
        xof == {[base EXCEPT !.testType = "MCT", !.minOutLen = mn, !.maxOutLen = mx,
                             !.t_cnt = c] :
                   mn \in MinOutLens(wide), mx \in MaxOutLens(wide), c \in cnts}
        fix == {[base EXCEPT !.testType = "MCT", !.mctVersion = v, !.t_cnt = c] :
                   v \in {NULL, "standard", "alternate", "other"}, c \in cnts}
    IN  plain \cup bad \cup (IF IsShake(a) THEN xof ELSE fix)

\* a test case as the handler reads it for a group of type tt; has_msg is
\* FALSE when the message member ("msg", or "content" of "largeMsg") is absent
TestInputs(a, wide, tt, i, j) ==
    LET base == [tcId |-> 7, has_msg |-> FALSE, msg |-> <<>>, outLen |-> 0,
                 contentLength |-> 0, fullLength |-> 0, expansionTechnique |-> NULL]
        ids == TcIds(wide, i, j)
        fix == {[base EXCEPT !.tcId = t, !.has_msg = TRUE, !.msg = m] :
                   t \in ids, m \in Msgs(a, wide)}
        xof == {[f EXCEPT !.outLen = o] : f \in fix, o \in OutLens(wide)}
        ldt == {[f EXCEPT !.contentLength = 4 * Len(f.msg) + d,
                          !.fullLength = 8 * Len(f.msg), !.expansionTechnique = x] :
                   f \in fix,
                   d \in (IF wide THEN {0} ELSE {0, 4, 8}),
                   x \in (IF wide THEN {"repeating"} ELSE {"repeating", "other"})}
    IN  {base} \cup
        (IF tt = "LDT" THEN ldt
         ELSE IF IsShake(a) /\ tt # "MCT" THEN xof
         ELSE fix)

(***************************************************************************)
(* acvp_hash_init_tc.  failAt names the calloc that returns NULL (0: none) *)
(* in the order msg, md, m1, m2, m3.  nalloc counts the buffers obtained.  *)
(***************************************************************************)
IsClassicMct(alg_id, test_type) ==
    test_type = ACVP_HASH_TEST_TYPE_MCT /\ ~IsSha3(alg_id) /\ ~IsShake(alg_id)

\* variant: the XOF maximum for every case
MdCapacityXof(alg_id, test_type, mct_buffer) == ACVP_HASH_XOF_MD_BYTE_MAX

\* capacity requested for the md buffer
MdCapacity(alg_id, test_type, mct_buffer) ==
    IF test_type \in {ACVP_HASH_TEST_TYPE_AFT, ACVP_HASH_TEST_TYPE_LDT}
      THEN ACVP_HASH_MD_BYTE_MAX
    ELSE IF test_type = ACVP_HASH_TEST_TYPE_VOT THEN ACVP_HASH_XOF_MD_BYTE_MAX
    ELSE IF IsSha3(alg_id) THEN ACVP_HASH_MD_BYTE_MAX
    ELSE IF IsShake(alg_id) THEN ACVP_HASH_XOF_MD_BYTE_MAX
    ELSE mct_buffer

\* capacity requested for the msg buffer
MsgCapacity(alg_id) ==
    IF ~IsShake(alg_id) THEN ACVP_HASH_MSG_BYTE_MAX ELSE ACVP_SHAKE_MSG_BYTE_MAX

NumAllocs(alg_id, test_type) == IF IsClassicMct(alg_id, test_type) THEN 5 ELSE 2

acvp_hash_init_tc(tc_id, test_type, mct_version, msg_len, msg, xof_len, exp_len, exp_method, alg_id, failAt) ==
    LET mct_buffer == IF test_type = ACVP_HASH_TEST_TYPE_MCT
                        THEN ACVP_HASH_MSG_BYTE_MAX ELSE ACVP_HASH_MD_BYTE_MAX
        s0 == IF test_type = ACVP_HASH_TEST_TYPE_MCT
                THEN [ZeroStc EXCEPT !.mct_version = mct_version] ELSE ZeroStc
        s1 == [s0 EXCEPT !.msg = calloc(MsgCapacity(alg_id))]
        s1c == IF IsClassicMct(alg_id, test_type)
                 THEN [s1 EXCEPT !.m1_len = msg_len, !.m2_len = msg_len, !.m3_len = msg_len]
                 ELSE s1
        s2 == [s1c EXCEPT !.md = calloc(MdCapacity(alg_id, test_type, mct_buffer))]
        s3 == [s2 EXCEPT !.m1 = calloc(mct_buffer)]
        s4 == [s3 EXCEPT !.m2 = calloc(mct_buffer)]
        s5 == [s4 EXCEPT !.m3 = calloc(mct_buffer)]
        sa == IF IsClassicMct(alg_id, test_type) THEN s5 ELSE s2
        na == NumAllocs(alg_id, test_type)
        cv == acvp_hexstr_to_bin(msg, sa.msg, MsgCapacity(alg_id))
        sb == [sa EXCEPT !.msg = cv.buf, !.tc_id = tc_id, !.cipher = alg_id,
                         !.test_type = test_type]
        sc == IF IsShake(alg_id)
                THEN [sb EXCEPT !.xof_len = (xof_len + 7) \div 8, !.xof_bit_len = xof_len]
                ELSE sb
        sd == IF test_type = ACVP_HASH_TEST_TYPE_LDT
                THEN [sc EXCEPT !.msg_len = msg_len, !.exp_len = exp_len,
                                !.exp_method = exp_method]
                ELSE [sc EXCEPT !.msg_len = (msg_len + 7) \div 8]
    IN  IF failAt = 1 THEN [rv |-> ACVP_MALLOC_FAIL, stc |-> s0, nalloc |-> 0]
        ELSE IF failAt = 2 THEN [rv |-> ACVP_MALLOC_FAIL, stc |-> s1c, nalloc |-> 1]
        ELSE IF failAt = 3 /\ na = 5 THEN [rv |-> ACVP_MALLOC_FAIL, stc |-> s2, nalloc |-> 2]
        ELSE IF failAt = 4 /\ na = 5 THEN [rv |-> ACVP_MALLOC_FAIL, stc |-> s3, nalloc |-> 3]
        ELSE IF failAt = 5 /\ na = 5 THEN [rv |-> ACVP_MALLOC_FAIL, stc |-> s4, nalloc |-> 4]
        ELSE IF cv.rv # ACVP_SUCCESS THEN [rv |-> cv.rv, stc |-> sa, nalloc |-> na]
        ELSE [rv |-> ACVP_SUCCESS, stc |-> sd, nalloc |-> na]

(***************************************************************************)
(* acvp_hash_release_tc: frees every non-NULL buffer and zeroes the        *)
(* context.  nfree counts the buffers given back.                          *)
(***************************************************************************)
Bufs == {"msg", "md", "m1", "m2", "m3"}

LiveBufs(s) == {b \in Bufs : Len(s[b]) > 0}

\* faulty variant: the digest buffer is not given back
release_tc_keeps_md(s) == [stc |-> ZeroStc, nfree |-> Cardinality(LiveBufs(s) \ {"md"})]

acvp_hash_release_tc(s) == [stc |-> ZeroStc, nfree |-> Cardinality(LiveBufs(s))]

(***************************************************************************)
(* Response encoders.  mok is FALSE when the calloc of the hex buffer      *)
(* fails.  A record is [md, outLen, set]; outLen is -1 when not written.   *)
(***************************************************************************)
IsShakeCipher(s) == IsShake(s.cipher)

\* faulty variant: outLen is taken from the length derived for the next pass
output_mct_tc_next_len(s, mok) ==
    LET cv == IF IsShakeCipher(s)
                THEN acvp_bin_to_hexstr(s.md, s.md_len, ACVP_HASH_XOF_MD_STR_MAX)
                ELSE acvp_bin_to_hexstr(s.md, s.md_len, ACVP_HASH_MD_STR_MAX)
    IN  IF ~mok THEN [rv |-> ACVP_MALLOC_FAIL, rec |-> NoRec]
        ELSE IF cv.rv # ACVP_SUCCESS THEN [rv |-> cv.rv, rec |-> NoRec]
        ELSE [rv |-> ACVP_SUCCESS,
              rec |-> [md |-> cv.str,
                       outLen |-> IF IsShakeCipher(s) THEN s.xof_len * 8 ELSE -1,
                       set |-> TRUE]]

acvp_hash_output_mct_tc(s, mok) ==
    LET cv == IF IsShakeCipher(s)
                THEN acvp_bin_to_hexstr(s.md, s.md_len, ACVP_HASH_XOF_MD_STR_MAX)
                ELSE acvp_bin_to_hexstr(s.md, s.md_len, ACVP_HASH_MD_STR_MAX)
    IN  IF ~mok THEN [rv |-> ACVP_MALLOC_FAIL, rec |-> NoRec]
        ELSE IF cv.rv # ACVP_SUCCESS THEN [rv |-> cv.rv, rec |-> NoRec]
        ELSE [rv |-> ACVP_SUCCESS,
              rec |-> [md |-> cv.str,
                       outLen |-> IF IsShakeCipher(s) THEN s.md_len * 8 ELSE -1,
                       set |-> TRUE]]

acvp_hash_output_tc(s, mok) ==
    LET cv == IF s.test_type = ACVP_HASH_TEST_TYPE_VOT
                THEN acvp_bin_to_hexstr(s.md, s.md_len, ACVP_HASH_XOF_MD_STR_MAX)
                ELSE acvp_bin_to_hexstr(s.md, s.md_len, ACVP_HASH_MD_STR_MAX)
    IN  IF ~mok THEN [rv |-> ACVP_MALLOC_FAIL, rec |-> NoRec]
        ELSE IF cv.rv # ACVP_SUCCESS THEN [rv |-> cv.rv, rec |-> NoRec]
        ELSE [rv |-> ACVP_SUCCESS,
              rec |-> [md |-> cv.str,
                       outLen |-> IF IsShakeCipher(s) THEN s.md_len * 8 ELSE -1,
                       set |-> TRUE]]

(***************************************************************************)
(* The engine call (cap->crypto_handler)(tc).  The harness builds the      *)
(* classic MCT message from the three slots: A || B || C, in the alternate *)
(* variant cut or zero-padded to the original message length.              *)
(***************************************************************************)
FitTo(m, n) == [k \in 1..n |-> IF k <= Len(m) THEN m[k] ELSE 0]

MctMsg(A, B, C, version, seed_len) ==
    IF version = ACVP_HASH_MCT_VERSION_ALTERNATE THEN FitTo(A \o B \o C, seed_len)
    ELSE A \o B \o C

EngineMsg(s) ==
    IF IsClassicMct(s.cipher, s.test_type)
      THEN MctMsg(Take(s.m1, s.m1_len), Take(s.m2, s.m2_len), Take(s.m3, s.m3_len),
                  s.mct_version, s.msg_len)
    ELSE Take(s.msg, s.msg_len)

\* bytes the engine is asked to write into md
EngineOutLen(s) == IF IsShakeCipher(s) THEN s.xof_len ELSE DigestLen

\* the engine would write past the end of md
EngineOverflows(s) == EngineOutLen(s) > Len(s.md)

EngineSalt(s) == env.salt + (IF s.test_type = ACVP_HASH_TEST_TYPE_LDT THEN s.exp_len ELSE 0)

crypto_handler(s) ==
    LET d == H(EngineSalt(s), EngineMsg(s), EngineOutLen(s))
    IN  [s EXCEPT !.md = [k \in 1..Len(s.md) |-> IF k <= Len(d) THEN d[k] ELSE s.md[k]],
                  !.md_len = Len(d)]

(***************************************************************************)
(* JSON values of the response.  js.st gives each value's state: "none"    *)
(* (NULL), "live" (created, owned by the handler), "owned" (appended to    *)
(* its parent), "freed", or "freed twice".                                 *)
(*   vs: r_vs_val   g: r_gval   t: r_tval of the handler                   *)
(*   r : r_tval of the running MCT engine                                  *)
(***************************************************************************)
EmptyGroup == [tgId |-> 0, tests |-> <<>>]

EmptyTest == [tcId |-> 0, rec |-> NoRec, has_results |-> FALSE, resultsArray |-> <<>>]

json_value_free(j, k) ==
    IF j.st[k] = "none" THEN j
    ELSE IF j.st[k] = "live" THEN [j EXCEPT !.st[k] = "freed"]
    ELSE [j EXCEPT !.st[k] = "freed twice"]

\* acvp_release_json(r_vs_val, r_gval)
acvp_release_json(j) == json_value_free(json_value_free(j, "vs"), "g")

\* faulty variant: the response group is not released on the error path
ErrExitKeepsGroup(hh, jj, code) ==
    [h |-> [hh EXCEPT !.pc = "done", !.rv = code],
     js |-> IF code # ACVP_SUCCESS THEN json_value_free(jj, "vs") ELSE jj]

\* faulty variant: nothing is released on the error path
ErrExitKeeps(hh, jj, code) ==
    [h |-> [hh EXCEPT !.pc = "done", !.rv = code], js |-> jj]

\* err: if (rv != ACVP_SUCCESS) acvp_release_json(r_vs_val, r_gval); return rv;
ErrExit(hh, jj, code) ==
    [h |-> [hh EXCEPT !.pc = "done", !.rv = code],
     js |-> IF code # ACVP_SUCCESS THEN acvp_release_json(jj) ELSE jj]

(***************************************************************************)
(* acvp_hash_kat_handler, top of the group loop: the new response group,   *)
(* tgId, testType and the MCT parameters of the group.                     *)
(***************************************************************************)
\* the checks made on minOutLen and maxOutLen of a SHAKE MCT group
MinOutLenRejected(min_xof_len) == min_xof_len < ACVP_HASH_XOF_MD_BIT_MIN

MaxOutLenRejected(max_xof_len) == max_xof_len > ACVP_HASH_XOF_MD_BIT_MAX

\* if (mct_version < 0): the -1 of read_mct_version is below 0 only where the
\* build gives the enumeration a signed type
MctVersionNegative(mv) == mv = "-1" /\ env.enum_signed

GroupStep(g) ==
    LET h0 == [h EXCEPT !.test_type = "0", !.tgId = 0, !.min_xof_len = 0,
                        !.max_xof_len = 0]
        j0 == [js EXCEPT !.st.g = "live", !.r_gobj = EmptyGroup]
        h1 == [h0 EXCEPT !.tgId = g.tgId]
        j1 == [j0 EXCEPT !.r_gobj = [tgId |-> g.tgId, tests |-> <<>>]]
        tt == read_test_type(g.testType)
        h2 == [h1 EXCEPT !.test_type = tt]
        h3 == [h2 EXCEPT !.min_xof_len = g.minOutLen]
        h4 == [h3 EXCEPT !.max_xof_len = g.maxOutLen]
        mv == read_mct_version(g.mctVersion)
        h5 == [h2 EXCEPT !.mct_version = mv]
        go(hh) == [h |-> [hh EXCEPT !.pc = "test", !.j = 0, !.t_cnt = g.t_cnt], js |-> j1]
    IN  IF g.tgId = 0 THEN ErrExit(h0, j0, ACVP_MALFORMED_JSON)
        ELSE IF g.testType = NULL THEN ErrExit(h1, j1, ACVP_MISSING_ARG)
        ELSE IF tt = "0" THEN ErrExit(h2, j1, ACVP_INVALID_ARG)
        ELSE IF tt = ACVP_HASH_TEST_TYPE_VOT /\ ~IsShake(env.alg)
          THEN ErrExit(h2, j1, ACVP_INVALID_ARG)
        ELSE IF tt = ACVP_HASH_TEST_TYPE_MCT
          THEN IF IsShake(env.alg)
                 THEN IF MinOutLenRejected(g.minOutLen)
                        THEN ErrExit(h3, j1, ACVP_INVALID_ARG)
                      ELSE IF MaxOutLenRejected(g.maxOutLen)
                        THEN ErrExit(h4, j1, ACVP_INVALID_ARG)
                      ELSE go(h4)
               ELSE IF g.mctVersion = NULL THEN ErrExit(h2, j1, ACVP_TC_MISSING_DATA)
               ELSE IF MctVersionNegative(mv) THEN ErrExit(h5, j1, ACVP_TC_INVALID_DATA)
               ELSE go(h5)
        ELSE go(h2)

GroupBegin ==
    /\ h.pc = "group"
    /\ h.i < env.g_cnt
    /\ \E g \in GroupInputs(env.alg, env.wide, h.i) :
         /\ doc' = Append(doc, [g |-> g, tests |-> <<>>])
         /\ h' = GroupStep(g).h
         /\ js' = GroupStep(g).js
    /\ UNCHANGED <<env, stc, mct, gh>>

(***************************************************************************)
(* After the last group: the vector-set response is appended to the        *)
(* response array and the handler returns ACVP_SUCCESS.                    *)
(***************************************************************************)
AppendVs(j) == [j EXCEPT !.reg_arry = Append(@, j.r_garr), !.st.vs = "owned"]

Finish ==
    /\ h.pc = "group"
    /\ h.i >= env.g_cnt
    /\ h' = ErrExit(h, AppendVs(js), ACVP_SUCCESS).h
    /\ js' = ErrExit(h, AppendVs(js), ACVP_SUCCESS).js
    /\ UNCHANGED <<env, doc, stc, mct, gh>>

(***************************************************************************)
(* Top of the test loop: the checks on the test case, the new response     *)
(* test object and acvp_hash_init_tc.                                      *)
(***************************************************************************)
\* variant: every algorithm is given the SHAKE maximum
MsgTooLongShake(alg_id, tmp_msg_len) == tmp_msg_len > ACVP_SHAKE_MSG_STR_MAX

\* max_len by algorithm family; if (tmp_msg_len > max_len)
MsgTooLong(alg_id, tmp_msg_len) == tmp_msg_len > MsgStrMax(alg_id)

\* variant: only the upper bound is checked
OutLenRejectedAbove(xof_len) == xof_len > ACVP_HASH_XOF_MD_BIT_MAX

\* if (!(xof_len >= ACVP_HASH_XOF_MD_BIT_MIN && xof_len <= ACVP_HASH_XOF_MD_BIT_MAX))
OutLenRejected(xof_len) ==
    ~(xof_len >= ACVP_HASH_XOF_MD_BIT_MIN /\ xof_len <= ACVP_HASH_XOF_MD_BIT_MAX)

\* the parsed members: rv, msglen, xof_len, exp_len, exp_method
ParseTest(t, test_type) ==
    LET none == [rv |-> ACVP_SUCCESS, msglen |-> 0, xof_len |-> 0, exp_len |-> 0,
                 exp_method |-> "0"]
        bad(code) == [none EXCEPT !.rv = code]
        tmp_msg_len == Len(t.msg)
    IN  IF test_type = ACVP_HASH_TEST_TYPE_LDT
          THEN IF IsShake(env.alg) THEN bad(ACVP_INVALID_ARG)
               ELSE IF ~t.has_msg THEN bad(ACVP_MISSING_ARG)
               ELSE IF tmp_msg_len > ACVP_HASH_MSG_STR_MAX THEN bad(ACVP_INVALID_ARG)
               ELSE IF tmp_msg_len \div 2 # t.contentLength \div 8 THEN bad(ACVP_INVALID_ARG)
               ELSE IF read_exp_method(t.expansionTechnique) # "repeating"
                 THEN bad(ACVP_INVALID_ARG)
               ELSE [none EXCEPT !.msglen = tmp_msg_len \div 2,
                                 !.exp_len = t.fullLength \div 8,
                                 !.exp_method = "repeating"]
        ELSE IF ~t.has_msg THEN bad(ACVP_MISSING_ARG)
        ELSE IF MsgTooLong(env.alg, tmp_msg_len) THEN bad(ACVP_INVALID_ARG)
        ELSE IF IsShake(env.alg) /\ test_type # ACVP_HASH_TEST_TYPE_MCT
          THEN IF OutLenRejected(t.outLen) THEN bad(ACVP_INVALID_ARG)
               ELSE [none EXCEPT !.msglen = tmp_msg_len * 4, !.xof_len = t.outLen]
        ELSE [none EXCEPT !.msglen = tmp_msg_len * 4]

TestStep(t, failAt) ==
    LET p == ParseTest(t, h.test_type)
        j1 == [js EXCEPT !.st.t = "live", !.r_tobj = [EmptyTest EXCEPT !.tcId = t.tcId]]
        it == acvp_hash_init_tc(t.tcId, h.test_type, h.mct_version, p.msglen, t.msg,
                                p.xof_len, p.exp_len, p.exp_method, env.alg, failAt)
        rl == acvp_hash_release_tc(it.stc)
        g1 == [gh EXCEPT !.heap = @ + it.nalloc, !.inits = @ + 1]
    IN  IF p.rv # ACVP_SUCCESS
          THEN [h |-> ErrExit(h, js, p.rv).h, js |-> ErrExit(h, js, p.rv).js,
                stc |-> stc, gh |-> gh]
        ELSE IF it.rv # ACVP_SUCCESS
          THEN [h |-> ErrExit(h, json_value_free(j1, "t"), it.rv).h,
                js |-> ErrExit(h, json_value_free(j1, "t"), it.rv).js,
                stc |-> rl.stc,
                gh |-> [g1 EXCEPT !.heap = @ - rl.nfree, !.frees = @ + rl.nfree]]
        ELSE [h |-> [h EXCEPT !.pc = "ready"], js |-> j1, stc |-> it.stc, gh |-> g1]

TestBegin ==
    /\ h.pc = "test"
    /\ h.j < h.t_cnt
    /\ \E t \in TestInputs(env.alg, env.wide, h.test_type, h.i, h.j) :
       \E failAt \in 0..NumAllocs(env.alg, h.test_type) :
         /\ doc' = [doc EXCEPT ![Len(doc)].tests = Append(@, t)]
         /\ h' = TestStep(t, failAt).h
         /\ js' = TestStep(t, failAt).js
         /\ stc' = TestStep(t, failAt).stc
         /\ gh' = TestStep(t, failAt).gh
    /\ UNCHANGED <<env, mct>>

(***************************************************************************)
(* End of the test loop: the group is appended to the response groups.     *)
(***************************************************************************)
AppendGroup(j) == [j EXCEPT !.r_garr = Append(@, j.r_gobj), !.st.g = "owned"]

GroupEnd ==
    /\ h.pc = "test"
    /\ h.j >= h.t_cnt
    /\ js' = AppendGroup(js)
    /\ h' = [h EXCEPT !.pc = "group", !.i = @ + 1]
    /\ UNCHANGED <<env, doc, stc, mct, gh>>

(***************************************************************************)
(* End of a test case: release of the context, then the test object is     *)
(* appended to the group's tests.                                          *)
(***************************************************************************)
ReleaseGh(g, s) ==
    [g EXCEPT !.heap = @ - acvp_hash_release_tc(s).nfree,
              !.frees = @ + acvp_hash_release_tc(s).nfree]

\* faulty variant: the test object is put in front of the group's tests
PrependTest(j) ==
    [j EXCEPT !.r_gobj.tests = <<j.r_tobj>> \o @, !.st.t = "owned"]

AppendTest(j) ==
    [j EXCEPT !.r_gobj.tests = Append(@, j.r_tobj), !.st.t = "owned"]

\* a failure after init: release, free the test object, goto err
TcFail(jj, s, g, code) ==
    [h |-> ErrExit(h, json_value_free(jj, "t"), code).h,
     js |-> ErrExit(h, json_value_free(jj, "t"), code).js,
     stc |-> acvp_hash_release_tc(s).stc,
     gh |-> ReleaseGh(g, s)]

\* success: release, append, next test
TcDone(jj, s, g) ==
    [h |-> [h EXCEPT !.pc = "test", !.j = @ + 1],
     js |-> AppendTest(jj),
     stc |-> acvp_hash_release_tc(s).stc,
     gh |-> ReleaseGh(g, s)]

\* undefined behaviour: an access outside a buffer or a division by zero
Undefined(s, g, what) ==
    [h |-> [h EXCEPT !.pc = "ub"], js |-> js, stc |-> s, gh |-> [g EXCEPT !.ub = what]]

\* the engine is called: observation of the call
Called(g, s, ok, inMct) ==
    [g EXCEPT !.ncalls = @ + 1,
              !.efail = @ \/ ~ok,
              !.emsg = EngineMsg(s),
              !.elen = EngineOutLen(s),
              !.calls = IF inMct THEN [@ EXCEPT ![Len(@)] = @ + 1] ELSE @]

(***************************************************************************)
(* A test case that is not MCT: one engine call, acvp_hash_output_tc.      *)
(***************************************************************************)
DirectStep(ok, mok) ==
    LET g1 == Called(gh, stc, ok, FALSE)
        s1 == crypto_handler(stc)
        out == acvp_hash_output_tc(s1, mok)
        j1 == [js EXCEPT !.r_tobj.rec = out.rec]
    IN  IF ~ok THEN TcFail(js, stc, g1, ACVP_CRYPTO_MODULE_FAIL)
        ELSE IF EngineOverflows(stc) THEN Undefined(stc, g1, "md overflow")
        ELSE IF out.rv # ACVP_SUCCESS THEN TcFail(js, s1, g1, out.rv)
        ELSE TcDone(j1, s1, g1)

TcDirect ==
    /\ h.pc = "ready"
    /\ stc.test_type # ACVP_HASH_TEST_TYPE_MCT
    /\ \E ok \in BOOLEAN, mok \in BOOLEAN :
         /\ h' = DirectStep(ok, mok).h
         /\ js' = DirectStep(ok, mok).js
         /\ stc' = DirectStep(ok, mok).stc
         /\ gh' = DirectStep(ok, mok).gh
    /\ UNCHANGED <<env, doc, mct>>

(***************************************************************************)
(* An MCT test case: the resultsArray is created and the engine of the     *)
(* algorithm family is entered (its declarations and its code before the   *)
(* outer loop).                                                            *)
(***************************************************************************)
\* unsigned int range = max_xof_bytes - min_xof_bytes + 1;
XofRange(min_xof_bytes, max_xof_bytes) ==
    (max_xof_bytes - min_xof_bytes + 1 + UINT_MOD) % UINT_MOD

\* acvp_hash_mct_tc: seed = stc->msg, the copy bound of the variant
ClassicEntry(s) ==
    [NoMct EXCEPT !.seed = "msg", !.seed_len = s.msg_len,
                  !.mct_buffer_size =
                      IF s.mct_version = ACVP_HASH_MCT_VERSION_ALTERNATE
                        THEN ACVP_HASH_MSG_BYTE_MAX ELSE ACVP_HASH_MD_BYTE_MAX]

\* acvp_hash_sha3_mct: initial_seed_len = stc->msg_len
Sha3Entry(s) == [NoMct EXCEPT !.initial_seed_len = s.msg_len]

\* acvp_hash_shake_mct: the byte bounds and the range
ShakeEntry(min_xof_bits, max_xof_bits) ==
    [NoMct EXCEPT !.min_xof_bytes = min_xof_bits \div 8,
                  !.max_xof_bytes = max_xof_bits \div 8,
                  !.range = XofRange(min_xof_bits \div 8, max_xof_bits \div 8)]

\* xof_len = (max_xof_bits / 8) * 8; stc->xof_len = (xof_len + 7) / 8;
ShakeInitialXofLen(max_xof_bits) == (((max_xof_bits \div 8) * 8) + 7) \div 8

MctStart ==
    /\ h.pc = "ready"
    /\ stc.test_type = ACVP_HASH_TEST_TYPE_MCT
    /\ js' = [js EXCEPT !.r_tobj.has_results = TRUE, !.r_tobj.resultsArray = <<>>,
                        !.st.r = "none", !.rec = NoRec]
    /\ gh' = [gh EXCEPT !.calls = <<>>]
    /\ IF IsSha3(env.alg)
         THEN /\ mct' = Sha3Entry(stc)
              /\ stc' = stc
              /\ h' = [h EXCEPT !.pc = "sha3_pass"]
       ELSE IF IsShake(env.alg)
         THEN /\ mct' = ShakeEntry(h.min_xof_len, h.max_xof_len)
              /\ stc' = [stc EXCEPT !.xof_len = ShakeInitialXofLen(h.max_xof_len)]
              /\ h' = [h EXCEPT !.pc = "shake_pass"]
       ELSE /\ mct' = ClassicEntry(stc)
            /\ stc' = stc
            /\ h' = [h EXCEPT !.pc = "classic_seed"]
    /\ UNCHANGED <<env, doc>>

\* the MCT engine returns rv to the handler
MctRet(m, code) == [m EXCEPT !.rv = code]

\* a new response object for the outer iteration (r_tval)
NewRec(j) == [j EXCEPT !.st.r = "live", !.rec = NoRec]

\* json_array_append_value(res_array, r_tval)
AppendRec(j, rec) ==
    [j EXCEPT !.r_tobj.resultsArray = Append(@, rec), !.rec = rec, !.st.r = "owned"]

(***************************************************************************)
(* acvp_hash_mct_tc (SHA-1, SHA-2).                                        *)
(***************************************************************************)
SeedBuf(s, m) == IF m.seed = "msg" THEN s.msg ELSE s.md

\* A = B = C = SEED; the results of memcpy_s are not looked at
ClassicSeedSlots(s, m) ==
    [s EXCEPT !.m1 = memcpy_s(s.m1, m.mct_buffer_size, SeedBuf(s, m), m.seed_len).buf,
              !.m1_len = m.seed_len,
              !.m2 = memcpy_s(s.m2, m.mct_buffer_size, SeedBuf(s, m), m.seed_len).buf,
              !.m2_len = m.seed_len,
              !.m3 = memcpy_s(s.m3, m.mct_buffer_size, SeedBuf(s, m), m.seed_len).buf,
              !.m3_len = m.seed_len]

ClassicSeed ==
    /\ h.pc = "classic_seed"
    /\ mct.i < ACVP_HASH_MCT_OUTER
    /\ stc' = ClassicSeedSlots(stc, mct)
    /\ js' = NewRec(js)
    /\ mct' = [mct EXCEPT !.j = 0]
    /\ gh' = [gh EXCEPT !.calls = Append(@, 0)]
    /\ h' = [h EXCEPT !.pc = "classic_round"]
    /\ UNCHANGED <<env, doc>>

\* faulty variant: the results of the three copies are not looked at
ClassicRotateUnchecked(s, size) ==
    [rc |-> 0,
     stc |-> [s EXCEPT !.m1 = memcpy_s(s.m1, size, s.m2, s.m2_len).buf, !.m1_len = s.m2_len,
                       !.m2 = memcpy_s(s.m2, size, s.m3, s.m3_len).buf, !.m2_len = s.m3_len,
                       !.m3 = memcpy_s(s.m3, size, s.md, s.md_len).buf, !.m3_len = s.md_len]]

\* faulty variant: A = B, B = C, C left as it is
ClassicRotateStale(s, size) ==
    LET c1 == memcpy_s(s.m1, size, s.m2, s.m2_len)
        c2 == memcpy_s(s.m2, size, s.m3, s.m3_len)
    IN  [rc |-> c1.rc + c2.rc,
         stc |-> [s EXCEPT !.m1 = c1.buf, !.m1_len = s.m2_len,
                           !.m2 = c2.buf, !.m2_len = s.m3_len]]

\* faulty variant: A = C, B = C, C = MD
ClassicRotateSkip(s, size) ==
    LET c1 == memcpy_s(s.m1, size, s.m3, s.m3_len)
        c2 == memcpy_s(s.m2, size, s.m3, s.m3_len)
        c3 == memcpy_s(s.m3, size, s.md, s.md_len)
    IN  [rc |-> c1.rc + c2.rc + c3.rc,
         stc |-> [s EXCEPT !.m1 = c1.buf, !.m1_len = s.m3_len,
                           !.m2 = c2.buf, !.m2_len = s.m3_len,
                           !.m3 = c3.buf, !.m3_len = s.md_len]]

\* A = B, B = C, C = MD; rc is the sum of the three results of memcpy_s
ClassicRotate(s, size) ==
    LET c1 == memcpy_s(s.m1, size, s.m2, s.m2_len)
        c2 == memcpy_s(s.m2, size, s.m3, s.m3_len)
        c3 == memcpy_s(s.m3, size, s.md, s.md_len)
    IN  [rc |-> c1.rc + c2.rc + c3.rc,
         stc |-> [s EXCEPT !.m1 = c1.buf, !.m1_len = s.m2_len,
                           !.m2 = c2.buf, !.m2_len = s.m3_len,
                           !.m3 = c3.buf, !.m3_len = s.md_len]]

\* the inner loop goes on while j < ACVP_HASH_MCT_INNER
ClassicInnerGoesOn(j) == j < ACVP_HASH_MCT_INNER

ClassicRoundStep(ok) ==
    LET g1 == Called(gh, stc, ok, TRUE)
        s1 == crypto_handler(stc)
        rot == ClassicRotate(s1, mct.mct_buffer_size)
        m1 == [mct EXCEPT !.j = @ + 1]
    IN  IF ~ok
          THEN [h |-> [h EXCEPT !.pc = "mct_ret"], js |-> json_value_free(js, "r"),
                stc |-> stc, mct |-> MctRet(mct, ACVP_CRYPTO_MODULE_FAIL), gh |-> g1]
        ELSE IF rot.rc # 0
          THEN [h |-> [h EXCEPT !.pc = "mct_ret"], js |-> json_value_free(js, "r"),
                stc |-> rot.stc, mct |-> MctRet(mct, ACVP_INTERNAL_ERR), gh |-> g1]
        ELSE [h |-> [h EXCEPT !.pc = IF ClassicInnerGoesOn(m1.j) THEN "classic_round"
                                      ELSE "classic_out"],
              js |-> js, stc |-> rot.stc, mct |-> m1, gh |-> g1]

ClassicRound ==
    /\ h.pc = "classic_round"
    /\ \E ok \in BOOLEAN :
         /\ h' = ClassicRoundStep(ok).h
         /\ js' = ClassicRoundStep(ok).js
         /\ stc' = ClassicRoundStep(ok).stc
         /\ mct' = ClassicRoundStep(ok).mct
         /\ gh' = ClassicRoundStep(ok).gh
    /\ UNCHANGED <<env, doc>>

\* Output MD, append, SEED = MD, next outer iteration or return
ClassicOutStep(mok) ==
    LET out == acvp_hash_output_mct_tc(stc, mok)
        m1 == [mct EXCEPT !.seed = "md", !.seed_len = stc.md_len, !.i = @ + 1]
    IN  IF out.rv # ACVP_SUCCESS
          THEN [h |-> [h EXCEPT !.pc = "mct_ret"], js |-> json_value_free(js, "r"),
                mct |-> MctRet(mct, out.rv)]
        ELSE IF m1.i < ACVP_HASH_MCT_OUTER
          THEN [h |-> [h EXCEPT !.pc = "classic_seed"], js |-> AppendRec(js, out.rec),
                mct |-> m1]
        ELSE [h |-> [h EXCEPT !.pc = "mct_ret"], js |-> AppendRec(js, out.rec),
              mct |-> MctRet(m1, ACVP_SUCCESS)]

ClassicOut ==
    /\ h.pc = "classic_out"
    /\ \E mok \in BOOLEAN :
         /\ h' = ClassicOutStep(mok).h
         /\ js' = ClassicOutStep(mok).js
         /\ mct' = ClassicOutStep(mok).mct
    /\ UNCHANGED <<env, doc, stc, gh>>

(***************************************************************************)
(* acvp_hash_sha3_mct.  One step is one pass of the inner loop.            *)
(***************************************************************************)
\* faulty variant: the alternate message is not padded to the seed length
Sha3ReplaceShort(s, initial_seed_len) ==
    LET n == IF s.mct_version = ACVP_HASH_MCT_VERSION_ALTERNATE /\ s.md_len > initial_seed_len
               THEN initial_seed_len ELSE s.md_len
    IN  [s EXCEPT !.msg = memcpy_s(memzero_s(s.msg, ACVP_HASH_MSG_BYTE_MAX),
                                   ACVP_HASH_MSG_BYTE_MAX, s.md, n).buf,
                  !.msg_len = n]

\* faulty variant: the whole digest in either variant
Sha3ReplaceWhole(s, initial_seed_len) ==
    [s EXCEPT !.msg = memcpy_s(memzero_s(s.msg, ACVP_HASH_MSG_BYTE_MAX),
                               ACVP_HASH_MSG_BYTE_MAX, s.md, s.md_len).buf,
              !.msg_len = s.md_len]

\* Use the MD[i-1] as the new Msg
Sha3Replace(s, initial_seed_len) ==
    LET z == memzero_s(s.msg, ACVP_HASH_MSG_BYTE_MAX)
    IN  IF s.mct_version = ACVP_HASH_MCT_VERSION_ALTERNATE
          THEN [s EXCEPT !.msg = memcpy_s(z, ACVP_HASH_MSG_BYTE_MAX, s.md,
                                          IF s.md_len > initial_seed_len
                                            THEN initial_seed_len ELSE s.md_len).buf,
                         !.msg_len = initial_seed_len]
        ELSE [s EXCEPT !.msg = memcpy_s(z, ACVP_HASH_MSG_BYTE_MAX, s.md, s.md_len).buf,
                       !.msg_len = s.md_len]

\* faulty variant: the break comes one pass late
Sha3BreaksLate(i) == i = ACVP_HASH_MCT_INNER + 1

\* the pass that only prepares the next seed: if (i == ACVP_HASH_MCT_INNER) break;
Sha3Breaks(i) == i = ACVP_HASH_MCT_INNER

\* goto end: if (rv != ACVP_SUCCESS && r_tval) json_value_free(r_tval);
MctEnd(j, code) == IF code # ACVP_SUCCESS THEN json_value_free(j, "r") ELSE j

Sha3PassStep(ok) ==
    LET j0 == IF mct.i = 0 THEN NewRec(js) ELSE js
        g0 == IF mct.i = 0 THEN [gh EXCEPT !.calls = Append(@, 0)] ELSE gh
        s1 == IF mct.i # 0 THEN Sha3Replace(stc, mct.initial_seed_len) ELSE stc
        s2 == [s1 EXCEPT !.md = memzero_s(s1.md, ACVP_HASH_MD_BYTE_MAX)]
        g1 == Called(g0, s2, ok, TRUE)
    IN  IF mct.i # 0 /\ Sha3Breaks(mct.i)
          THEN [h |-> [h EXCEPT !.pc = "sha3_out"], js |-> j0, stc |-> s1, mct |-> mct,
                gh |-> g0]
        ELSE IF ~ok
          THEN [h |-> [h EXCEPT !.pc = "mct_ret"],
                js |-> MctEnd(j0, ACVP_CRYPTO_MODULE_FAIL), stc |-> s2,
                mct |-> MctRet(mct, ACVP_CRYPTO_MODULE_FAIL), gh |-> g1]
        ELSE [h |-> h, js |-> j0, stc |-> crypto_handler(s2),
              mct |-> [mct EXCEPT !.i = @ + 1], gh |-> g1]

Sha3Pass ==
    /\ h.pc = "sha3_pass"
    /\ mct.i <= ACVP_HASH_MCT_INNER
    /\ \E ok \in BOOLEAN :
         /\ h' = Sha3PassStep(ok).h
         /\ js' = Sha3PassStep(ok).js
         /\ stc' = Sha3PassStep(ok).stc
         /\ mct' = Sha3PassStep(ok).mct
         /\ gh' = Sha3PassStep(ok).gh
    /\ UNCHANGED <<env, doc>>

\* output, append, next outer iteration or return (shared by SHA-3 and SHAKE)
XofOutStep(mok, next) ==
    LET out == acvp_hash_output_mct_tc(stc, mok)
        m1 == [mct EXCEPT !.j = @ + 1, !.i = 0]
    IN  IF out.rv # ACVP_SUCCESS
          THEN [h |-> [h EXCEPT !.pc = "mct_ret"], js |-> MctEnd(js, out.rv),
                mct |-> MctRet(mct, out.rv)]
        ELSE IF m1.j < ACVP_HASH_MCT_OUTER
          THEN [h |-> [h EXCEPT !.pc = next], js |-> AppendRec(js, out.rec), mct |-> m1]
        ELSE [h |-> [h EXCEPT !.pc = "mct_ret"], js |-> AppendRec(js, out.rec),
              mct |-> MctRet(m1, ACVP_SUCCESS)]

Sha3Out ==
    /\ h.pc = "sha3_out"
    /\ \E mok \in BOOLEAN :
         /\ h' = XofOutStep(mok, "sha3_pass").h
         /\ js' = XofOutStep(mok, "sha3_pass").js
         /\ mct' = XofOutStep(mok, "sha3_pass").mct
    /\ UNCHANGED <<env, doc, stc, gh>>

(***************************************************************************)
(* acvp_hash_shake_mct.  One step is one pass of the inner loop.           *)
(***************************************************************************)
\* faulty variant: the msg buffer is not zeroed before the copy
ShakeReplaceNoZero(s) ==
    [s EXCEPT !.msg = memcpy_s(s.msg, ACVP_SHAKE_MSG_BYTE_MAX, s.md,
                               Min(s.md_len, leftmost_bytes)).buf]

\* Use the MD[i-1] as the new Msg: the leftmost 128 bits, or all of a
\* shorter digest
ShakeReplace(s) ==
    LET z == memzero_s(s.msg, ACVP_SHAKE_MSG_BYTE_MAX)
    IN  IF s.md_len <= leftmost_bytes
          THEN [s EXCEPT !.msg = memcpy_s(z, ACVP_SHAKE_MSG_BYTE_MAX, s.md, s.md_len).buf]
        ELSE [s EXCEPT !.msg = memcpy_s(z, ACVP_SHAKE_MSG_BYTE_MAX, s.md, leftmost_bytes).buf]

ShakeBreaks(i) == i = ACVP_HASH_MCT_INNER

\* variant: the message length is left as it is
ShakeKeepMsgLen(s) == s

\* stc->msg_len = leftmost_bytes;
ShakeSetMsgLen(s) == [s EXCEPT !.msg_len = leftmost_bytes]

\* rob[0], rob[1] as the branch compiled for the host fills them
\* (ACVP_HOST_LITTLE_ENDIAN: md[md_len-1], md[md_len-2]; else md[md_len-2],
\* md[md_len-1]); md is 1-based here
Rob(md, md_len, little) ==
    IF little THEN <<md[md_len], md[md_len - 1]>> ELSE <<md[md_len - 1], md[md_len]>>

\* *rightmost_out_bits: the uint16_t read from rob on the host
Load16(rob, little) ==
    IF little THEN rob[1] + 256 * rob[2] ELSE 256 * rob[1] + rob[2]

RightmostOutBits(md, md_len, little) == Load16(Rob(md, md_len, little), little)

\* stc->xof_len = min_xof_bytes + ((*rightmost_out_bits) % range);
NextXofLen(min_xof_bytes, range, v) == (min_xof_bytes + (v % range)) % UINT_MOD

ShakePassStep(ok) ==
    LET j0 == IF mct.i = 0 THEN NewRec(js) ELSE js
        g0 == IF mct.i = 0 THEN [gh EXCEPT !.calls = Append(@, 0)] ELSE gh
        s1 == IF mct.i # 0 THEN ShakeReplace(stc) ELSE stc
        s2 == [ShakeSetMsgLen(s1) EXCEPT !.md = memzero_s(s1.md, ACVP_HASH_XOF_MD_BYTE_MAX)]
        g1 == Called(g0, s2, ok, TRUE)
        s3 == crypto_handler(s2)
        v == RightmostOutBits(s3.md, s3.md_len, env.host_le)
    IN  IF mct.i # 0 /\ ShakeBreaks(mct.i)
          THEN [h |-> [h EXCEPT !.pc = "shake_out"], js |-> j0, stc |-> s1, mct |-> mct,
                gh |-> g0]
        ELSE IF ~ok
          THEN [h |-> [h EXCEPT !.pc = "mct_ret"],
                js |-> MctEnd(j0, ACVP_CRYPTO_MODULE_FAIL), stc |-> s2,
                mct |-> MctRet(mct, ACVP_CRYPTO_MODULE_FAIL), gh |-> g1]
        ELSE IF EngineOverflows(s2)
          THEN [h |-> [h EXCEPT !.pc = "ub"], js |-> j0, stc |-> s2, mct |-> mct,
                gh |-> [g1 EXCEPT !.ub = "md overflow"]]
        ELSE IF s3.md_len < 2
          THEN [h |-> [h EXCEPT !.pc = "ub"], js |-> j0, stc |-> s3, mct |-> mct,
                gh |-> [g1 EXCEPT !.ub = "md underflow"]]
        ELSE IF mct.range = 0
          THEN [h |-> [h EXCEPT !.pc = "ub"], js |-> j0, stc |-> s3, mct |-> mct,
                gh |-> [g1 EXCEPT !.ub = "division by zero"]]
        ELSE [h |-> h, js |-> j0,
              stc |-> [s3 EXCEPT !.xof_len = NextXofLen(mct.min_xof_bytes, mct.range, v)],
              mct |-> [mct EXCEPT !.i = @ + 1], gh |-> g1]

ShakePass ==
    /\ h.pc = "shake_pass"
    /\ mct.i <= ACVP_HASH_MCT_INNER
    /\ \E ok \in BOOLEAN :
         /\ h' = ShakePassStep(ok).h
         /\ js' = ShakePassStep(ok).js
         /\ stc' = ShakePassStep(ok).stc
         /\ mct' = ShakePassStep(ok).mct
         /\ gh' = ShakePassStep(ok).gh
    /\ UNCHANGED <<env, doc>>

ShakeOut ==
    /\ h.pc = "shake_out"
    /\ \E mok \in BOOLEAN :
         /\ h' = XofOutStep(mok, "shake_pass").h
         /\ js' = XofOutStep(mok, "shake_pass").js
         /\ mct' = XofOutStep(mok, "shake_pass").mct
    /\ UNCHANGED <<env, doc, stc, gh>>

(***************************************************************************)
(* Back in the handler after the MCT engine returned.                      *)
(***************************************************************************)
\* faulty variant: the result of the MCT engine is not looked at
MctReturnIgnored == TcDone(js, stc, gh)

MctReturnStep ==
    IF mct.rv # ACVP_SUCCESS THEN TcFail(js, stc, gh, mct.rv) ELSE TcDone(js, stc, gh)

MctReturn ==
    /\ h.pc = "mct_ret"
    /\ h' = MctReturnStep.h
    /\ js' = MctReturnStep.js
    /\ stc' = MctReturnStep.stc
    /\ gh' = MctReturnStep.gh
    /\ UNCHANGED <<env, doc, mct>>

(***************************************************************************)
(* Initial state: the response skeleton is built, no group is read yet.    *)
(* wide documents have up to MaxGroups groups of up to MaxTests cases with *)
(* one representative value per member; the others hold one test case and  *)
(* range over the values of its members.                                   *)
(***************************************************************************)
Init ==
    /\ env \in {e \in [alg : Algs, salt : {0, 1}, host_le : BOOLEAN,
                       enum_signed : BOOLEAN, wide : BOOLEAN,
                       g_cnt : 0..MaxGroups] :
                  IF e.wide THEN e.salt = 0 /\ e.host_le /\ e.enum_signed
                  ELSE e.g_cnt = 1}
    /\ doc = <<>>
    /\ h = [pc |-> "group", i |-> 0, j |-> 0, t_cnt |-> 0, rv |-> ACVP_SUCCESS,
            test_type |-> "0", tgId |-> 0, min_xof_len |-> 0, max_xof_len |-> 0,
            mct_version |-> "indeterminate"]
    /\ js = [reg_arry |-> <<>>, r_garr |-> <<>>, r_gobj |-> EmptyGroup,
             r_tobj |-> EmptyTest, rec |-> NoRec,
             st |-> [vs |-> "live", g |-> "none", t |-> "none", r |-> "none"]]
    /\ stc = ZeroStc
    /\ mct = NoMct
    /\ gh = [calls |-> <<>>, ncalls |-> 0, efail |-> FALSE, emsg |-> <<>>, elen |-> 0,
             heap |-> 0, frees |-> 0, inits |-> 0, ub |-> "no"]

Next ==
    \/ GroupBegin
    \/ Finish
    \/ TestBegin
    \/ GroupEnd
    \/ TcDirect
    \/ MctStart
    \/ ClassicSeed
    \/ ClassicRound
    \/ ClassicOut
    \/ Sha3Pass
    \/ Sha3Out
    \/ ShakePass
    \/ ShakeOut
    \/ MctReturn

Spec == Init /\ [][Next]_vars

(***************************************************************************)
(* Vocabulary of the properties.                                           *)
(***************************************************************************)
InMct ==
    h.pc \in {"classic_seed", "classic_round", "classic_out", "sha3_pass", "sha3_out",
              "shake_pass", "shake_out", "mct_ret"}

MctReturned == h.pc = "mct_ret"

\* the group and the test case being processed, as read from the vector set
CurGroup == doc[Len(doc)].g

CurTest == doc[Len(doc)].tests[Len(doc[Len(doc)].tests)]

\* the resultsArray of the test case being processed
Results == js.r_tobj.resultsArray

\* the case's input message, decoded
InputMsg == HexToBytes(CurTest.msg)

Hex(bytes) ==
    [k \in 1..(2 * Len(bytes)) |->
       IF k % 2 = 1 THEN bytes[(k + 1) \div 2] \div 16 ELSE bytes[k \div 2] % 16]

ClassicRun == InMct /\ ~IsSha3(env.alg) /\ ~IsShake(env.alg)

Sha3Run == InMct /\ IsSha3(env.alg)

ShakeRun == InMct /\ IsShake(env.alg)

\* outer iterations of the running engine that are complete (record appended)
OuterDone == IF ClassicRun THEN mct.i ELSE mct.j

(***************************************************************************)
(* C1 as stated: on a run in which every hash-engine call succeeds, each   *)
(* MCT engine calls the engine exactly ACVP_HASH_MCT_INNER times in each   *)
(* of exactly ACVP_HASH_MCT_OUTER outer iterations, appends one record     *)
(* after each and returns success with ACVP_HASH_MCT_OUTER records (a run  *)
(* in which a memory allocation fails is left aside).                      *)
(***************************************************************************)
FullRun ==
    /\ mct.rv = ACVP_SUCCESS
    /\ Len(Results) = ACVP_HASH_MCT_OUTER
    /\ gh.calls = [k \in 1..ACVP_HASH_MCT_OUTER |-> ACVP_HASH_MCT_INNER]

C1_Counts ==
    InMct =>
      /\ Len(Results) = OuterDone
      /\ Len(gh.calls) \in {Len(Results), Len(Results) + 1}
      /\ \A k \in 1..Len(Results) : gh.calls[k] = ACVP_HASH_MCT_INNER
      /\ \A k \in 1..Len(gh.calls) : gh.calls[k] <= ACVP_HASH_MCT_INNER
      /\ (js.st.r = "owned" =>
            /\ Len(Results) >= 1
            /\ Results[Len(Results)].md = Hex(Take(stc.md, stc.md_len)))

\* the rotation copies of the classic engine are refused: an empty seed, or
\* a seed longer than the digest maximum outside the alternate variant
RotationRefused ==
    \/ Len(InputMsg) = 0
    \/ /\ CurGroup.mctVersion # ACVP_HASH_MCT_VERSION_ALTERNATE
       /\ Len(InputMsg) > ACVP_HASH_MD_BYTE_MAX

C1_Outcome ==
    (MctReturned /\ ~gh.efail) =>
      \/ FullRun /\ ~(ClassicRun /\ RotationRefused)
      \/ /\ ClassicRun /\ RotationRefused
         /\ mct.rv = ACVP_INTERNAL_ERR
         /\ Results = <<>> /\ gh.calls = <<1>>
      \/ /\ mct.rv = ACVP_MALLOC_FAIL
         /\ Len(Results) < ACVP_HASH_MCT_OUTER
         /\ ~(ClassicRun /\ RotationRefused)

RECURSIVE ClassicRounds(_, _, _, _, _, _)
ClassicRounds(A, B, C, n, version, msg_len) ==
    IF n = 0 THEN C
    ELSE ClassicRounds(B, C, H(env.salt, MctMsg(A, B, C, version, msg_len), DigestLen),
                       n - 1, version, msg_len)

ClassicChain(seed, version, msg_len) ==
    ClassicRounds(seed, seed, seed, ACVP_HASH_MCT_INNER, version, msg_len)

RECURSIVE ClassicRecord(_, _, _)
ClassicRecord(k, version, input) ==
    IF k = 0 THEN ClassicChain(input, version, Len(input))
    ELSE ClassicChain(ClassicRecord(k - 1, version, input), version, Len(input))

\* SHA-3: R is the identity in the standard variant, cut or zero-pad to the
\* length of the original seed in the alternate variant
R(md, version, seed_len) ==
    IF version = ACVP_HASH_MCT_VERSION_ALTERNATE THEN FitTo(md, seed_len) ELSE md

\* MD0 = H(msg), MDi = H(R(MDi-1)): the digest after n + 1 computations
RECURSIVE Sha3Chain(_, _, _, _)
Sha3Chain(msg, n, version, seed_len) ==
    IF n = 0 THEN H(env.salt, msg, DigestLen)
    ELSE H(env.salt, R(Sha3Chain(msg, n - 1, version, seed_len), version, seed_len),
           DigestLen)

RECURSIVE Sha3Record(_, _, _)
Sha3Record(k, version, input) ==
    IF k = 0 THEN Sha3Chain(input, ACVP_HASH_MCT_INNER - 1, version, Len(input))
    ELSE Sha3Chain(R(Sha3Record(k - 1, version, input), version, Len(input)),
                   ACVP_HASH_MCT_INNER - 1, version, Len(input))

C3_Sha3Records ==
    Sha3Run =>
      /\ \A k \in 1..Len(Results) :
           Results[k].md = Hex(Sha3Record(k - 1, CurGroup.mctVersion, InputMsg))
      /\ Len(Results) <= ACVP_HASH_MCT_OUTER
      /\ (MctReturned /\ mct.rv = ACVP_SUCCESS => Len(Results) = ACVP_HASH_MCT_OUTER)
      /\ (MctReturned /\ mct.rv = ACVP_SUCCESS => Len(Results) = ACVP_HASH_MCT_OUTER)

\* an alternate-variant run that had to cut the digest returned success
C3_Witness ==
    /\ Sha3Run /\ MctReturned /\ mct.rv = ACVP_SUCCESS
    /\ CurGroup.mctVersion = "alternate"
    /\ Len(InputMsg) < DigestLen
    /\ Len(Results) = ACVP_HASH_MCT_OUTER

(***************************************************************************)
(* C4 as stated: after every computed pass of SHAKE MCT with a digest md   *)
(* of length L the next requested length in bytes is                       *)
(*   min_bytes + ((256*md[L-2] + md[L-1]) mod (max_bytes - min_bytes + 1)) *)
(* with min_bytes = floor(minOutLen/8), max_bytes = floor(maxOutLen/8), on *)
(* a little-endian and on a big-endian host alike.  (md is 1-based here.)  *)
(***************************************************************************)
PassComputed == h.pc \in {"shake_pass", "shake_out"} /\ mct.i >= 1

TrailingValue == 256 * stc.md[stc.md_len - 1] + stc.md[stc.md_len]

C4_AsStated ==
    PassComputed =>
      LET min_bytes == CurGroup.minOutLen \div 8
          max_bytes == CurGroup.maxOutLen \div 8
      IN  /\ max_bytes - min_bytes + 1 > 0
          /\ stc.xof_len = min_bytes + (TrailingValue % (max_bytes - min_bytes + 1))

(***************************************************************************)
(* C5 as stated: for every SHAKE MCT group the classifier accepts, every   *)
(* record of every test case has outLen within [minOutLen, maxOutLen].     *)
(***************************************************************************)
C5_AsStated ==
    ShakeRun =>
      \A k \in 1..Len(Results) :
        /\ Results[k].outLen >= CurGroup.minOutLen
        /\ Results[k].outLen <= CurGroup.maxOutLen

(***************************************************************************)
(* C6: when the hash engine fails inside an MCT engine, the engine returns *)
(* ACVP_CRYPTO_MODULE_FAIL at once, no further engine call is made, the    *)
(* record of the current outer iteration is not appended (it is freed),    *)
(* the test case's entry is not appended to the group's tests (it is       *)
(* freed) and the handler returns ACVP_CRYPTO_MODULE_FAIL.                 *)
(***************************************************************************)
C6_State ==
    gh.efail =>
      /\ h.pc \in {"mct_ret", "done"}
      /\ (h.pc = "mct_ret" =>
            /\ mct.rv = ACVP_CRYPTO_MODULE_FAIL
            /\ Len(Results) = Len(gh.calls) - 1
            /\ js.st.r = "freed"
            /\ js.st.t = "live")
      /\ (h.pc = "done" =>
            /\ h.rv = ACVP_CRYPTO_MODULE_FAIL
            /\ js.st.t = "freed"
            /\ Len(js.r_gobj.tests) = h.j)

C6_Step == gh.efail => (gh'.ncalls = gh.ncalls /\ js'.r_tobj = js.r_tobj)

C6_EngineFailure == []C6_State /\ [][C6_Step]_vars

\* the engine failed in the second outer iteration of an MCT run and the
\* handler has returned
C6_Witness ==
    /\ gh.efail /\ h.pc = "done" /\ h.rv = ACVP_CRYPTO_MODULE_FAIL
    /\ js.r_tobj.has_results /\ Len(Results) = 1 /\ Len(gh.calls) = 2

(***************************************************************************)
(* C7: when acvp_hash_kat_handler fails after the response skeleton is     *)
(* built, nothing more is processed, the vector-set response is never      *)
(* appended to the response document and the objects built so far are      *)
(* released (each once); the vector-set response is appended, exactly      *)
(* once, only when every group and every test case was processed.          *)
(***************************************************************************)
Released(st) == st \in {"none", "owned", "freed"}

C7_State ==
    /\ \A k \in {"vs", "g", "t", "r"} : js.st[k] # "freed twice"
    /\ (h.pc # "done" => js.reg_arry = <<>> /\ js.st.vs = "live")
    /\ (h.pc = "done" /\ h.rv # ACVP_SUCCESS =>
          /\ js.reg_arry = <<>>
          /\ js.st.vs = "freed"
          /\ js.st.g = "freed"
          /\ Released(js.st.t)
          /\ Released(js.st.r))
    /\ (h.pc = "done" /\ h.rv = ACVP_SUCCESS =>
          /\ Len(js.reg_arry) = 1
          /\ js.st.vs = "owned"
          /\ js.st.g \in {"none", "owned"}
          /\ Len(doc) = env.g_cnt
          /\ \A g \in 1..Len(doc) : Len(doc[g].tests) = doc[g].g.t_cnt)

\* no step is taken once the handler has returned
C7_Step == h.pc # "done"

C7_FailureDiscards == []C7_State /\ [][C7_Step]_vars

\* the handler failed in its second group, on a test case after the first
C7_Witness ==
    /\ h.pc = "done" /\ h.rv # ACVP_SUCCESS
    /\ Len(js.r_garr) = 1 /\ Len(js.r_gobj.tests) = 1 /\ js.st.t = "freed"

(***************************************************************************)
(* C8: every context buffer on the heap belongs to the one test context    *)
(* (none is leaked, none is freed twice); between test cases, when the     *)
(* next context is initialised and when the handler returns, no context    *)
(* buffer is live, whatever the failure point.                             *)
(***************************************************************************)
C8_ContextBuffers ==
    /\ gh.heap = Cardinality(LiveBufs(stc))
    /\ (h.pc \in {"group", "test", "done"} => gh.heap = 0 /\ stc = ZeroStc)
    /\ gh.inits <= 1 + gh.frees

\* acvp_hash_init_tc failed after three of its five allocations and the
\* handler has returned
C8_Witness ==
    /\ h.pc = "done" /\ h.rv = ACVP_MALLOC_FAIL
    /\ gh.inits = 1 /\ gh.frees = 3

(***************************************************************************)
(* C9: on a successful run the response holds one group entry per input    *)
(* group in document order with its tgId, each with one test entry per     *)
(* input test case in group order with its tcId; the response arrays only  *)
(* grow at their end; a test entry is appended only once its case is       *)
(* complete and a group entry only after all of its test entries.          *)
(***************************************************************************)
IsPrefix(a, b) == Len(a) <= Len(b) /\ SubSeq(b, 1, Len(a)) = a

TestComplete(t) ==
    IF t.has_results THEN Len(t.resultsArray) = ACVP_HASH_MCT_OUTER /\ ~t.rec.set
    ELSE t.rec.set

C9_State ==
    /\ (h.pc = "done" /\ h.rv = ACVP_SUCCESS =>
          /\ Len(js.reg_arry[1]) = env.g_cnt
          /\ Len(doc) = env.g_cnt
          /\ \A g \in 1..Len(doc) :
               /\ js.reg_arry[1][g].tgId = doc[g].g.tgId
               /\ Len(js.reg_arry[1][g].tests) = Len(doc[g].tests)
               /\ \A t \in 1..Len(doc[g].tests) :
                    js.reg_arry[1][g].tests[t].tcId = doc[g].tests[t].tcId)
    /\ \A g \in 1..Len(js.r_garr) :
         /\ Len(js.r_garr[g].tests) = doc[g].g.t_cnt
         /\ \A t \in 1..Len(js.r_garr[g].tests) : TestComplete(js.r_garr[g].tests[t])
    /\ \A t \in 1..Len(js.r_gobj.tests) : TestComplete(js.r_gobj.tests[t])

C9_Step ==
    /\ IsPrefix(js.r_garr, js'.r_garr)
    /\ Len(js'.r_garr) <= Len(js.r_garr) + 1
    /\ (h.pc # "group" => IsPrefix(js.r_gobj.tests, js'.r_gobj.tests))
    /\ (h.pc # "test" => IsPrefix(js.r_tobj.resultsArray, js'.r_tobj.resultsArray))

C9_ResponseOrder == []C9_State /\ [][C9_Step]_vars

\* a successful run over two groups, the second with two test cases of
\* different tcId
C9_Witness ==
    /\ h.pc = "done" /\ h.rv = ACVP_SUCCESS
    /\ Len(js.reg_arry) = 1 /\ Len(js.reg_arry[1]) = 2
    /\ js.reg_arry[1][1].tgId # js.reg_arry[1][2].tgId
    /\ Len(js.reg_arry[1][2].tests) = 2
    /\ js.reg_arry[1][2].tests[1].tcId # js.reg_arry[1][2].tests[2].tcId

(***************************************************************************)
(* C10 as stated: a SHAKE MCT group is accepted only if minOutLen and      *)
(* maxOutLen are both present and both within                              *)
(* [ACVP_HASH_XOF_MD_BIT_MIN, ACVP_HASH_XOF_MD_BIT_MAX].                   *)
(***************************************************************************)
InXofBounds(n) == n >= ACVP_HASH_XOF_MD_BIT_MIN /\ n <= ACVP_HASH_XOF_MD_BIT_MAX

ShakeMctGroupAccepted ==
    h.pc = "test" /\ IsShake(env.alg) /\ h.test_type = ACVP_HASH_TEST_TYPE_MCT

C10_AsStated ==
    ShakeMctGroupAccepted =>
      /\ CurGroup.minOutLen # 0 /\ InXofBounds(CurGroup.minOutLen)
      /\ CurGroup.maxOutLen # 0 /\ InXofBounds(CurGroup.maxOutLen)

(***************************************************************************)
(* C11 as stated: an MCT group on a non-XOF algorithm whose mctVersion is  *)
(* absent ends the handler with ACVP_TC_MISSING_DATA, and one whose        *)
(* mctVersion is neither "standard" nor "alternate" ends it with           *)
(* ACVP_TC_INVALID_DATA; in both cases no test case of the group is read   *)
(* (so no context is created and no engine call is made for the group).    *)
(* The group has a tgId and is the last one read.                          *)
(***************************************************************************)
NonXofMctGroup ==
    /\ Len(doc) > 0
    /\ ~IsShake(env.alg)
    /\ CurGroup.tgId # 0
    /\ CurGroup.testType = "MCT"

GroupRejectedWith(code) ==
    /\ h.pc = "done"
    /\ h.rv = code
    /\ doc[Len(doc)].tests = <<>>

C11_AsStated ==
    NonXofMctGroup =>
      /\ CurGroup.mctVersion = NULL => GroupRejectedWith(ACVP_TC_MISSING_DATA)
      /\ CurGroup.mctVersion \notin {NULL, "standard", "alternate"}
           => GroupRejectedWith(ACVP_TC_INVALID_DATA)

(***************************************************************************)
(* C12 as stated: an LDT test case whose contentLength (bits) is not       *)
(* exactly 8 times the byte length of its decoded content ends the handler *)
(* with ACVP_INVALID_ARG before acvp_hash_init_tc is called for it.  The   *)
(* content is present, decodable (an even number of hex digits) and within *)
(* ACVP_HASH_MSG_STR_MAX; the case is the last one read.                   *)
(***************************************************************************)
RECURSIVE TestsReadUpTo(_)
TestsReadUpTo(n) == IF n = 0 THEN 0 ELSE TestsReadUpTo(n - 1) + Len(doc[n].tests)

\* the number of test cases the handler has read from the vector set
TestsRead == TestsReadUpTo(Len(doc))

HasCurTest == Len(doc) > 0 /\ Len(doc[Len(doc)].tests) > 0

\* the last test case read was refused before a context was created for it
CaseRejectedWith(code) ==
    /\ h.pc = "done"
    /\ h.rv = code
    /\ gh.inits < TestsRead

LdtCase ==
    /\ HasCurTest
    /\ ~IsShake(env.alg)
    /\ h.test_type = ACVP_HASH_TEST_TYPE_LDT
    /\ CurTest.has_msg
    /\ Len(CurTest.msg) % 2 = 0
    /\ Len(CurTest.msg) <= ACVP_HASH_MSG_STR_MAX

C12_AsStated ==
    (LdtCase /\ CurTest.contentLength # 8 * (Len(CurTest.msg) \div 2))
      => CaseRejectedWith(ACVP_INVALID_ARG)

(***************************************************************************)
(* C13 as stated: for an AFT or VOT test case on SHAKE, with an engine     *)
(* that emits exactly the requested number of bytes, the outLen of the     *)
(* response entry (bits) equals the outLen of the test case (bits).  The   *)
(* entries are those of the group being processed, in the cases' order.    *)
(***************************************************************************)
ShakeDirectGroup ==
    /\ Len(doc) > 0
    /\ IsShake(env.alg)
    /\ h.test_type \in {ACVP_HASH_TEST_TYPE_AFT, ACVP_HASH_TEST_TYPE_VOT}
    /\ js.st.g = "live"
    /\ js.r_gobj.tgId = CurGroup.tgId

C13_AsStated ==
    ShakeDirectGroup =>
      \A k \in 1..Len(js.r_gobj.tests) :
         k <= Len(doc[Len(doc)].tests) =>
           js.r_gobj.tests[k].rec.outLen = doc[Len(doc)].tests[k].outLen

(***************************************************************************)
(* C14: a group (with a tgId) whose testType is absent ends the handler    *)
(* with ACVP_MISSING_ARG, and one whose testType is not AFT, MCT, VOT or   *)
(* LDT, or is VOT on an algorithm other than SHAKE, ends it with           *)
(* ACVP_INVALID_ARG.  The step that reads such a group creates no context  *)
(* and calls no engine, no test case of the group is read, and the handler *)
(* takes no step after it has returned.                                    *)
(***************************************************************************)
TestTypeCode(g) ==
    IF g.testType = NULL THEN ACVP_MISSING_ARG
    ELSE IF g.testType \notin {"AFT", "MCT", "VOT", "LDT"} THEN ACVP_INVALID_ARG
    ELSE IF g.testType = "VOT" /\ ~IsShake(env.alg) THEN ACVP_INVALID_ARG
    ELSE ACVP_SUCCESS

BadTestTypeGroup ==
    /\ Len(doc) > 0
    /\ CurGroup.tgId # 0
    /\ TestTypeCode(CurGroup) # ACVP_SUCCESS

C14_State == BadTestTypeGroup => GroupRejectedWith(TestTypeCode(CurGroup))

C14_Step ==
    /\ h.pc # "done"
    /\ (Len(doc') = Len(doc) + 1 /\ BadTestTypeGroup')
         => /\ gh' = gh
            /\ stc' = stc

C14_TestType == []C14_State /\ [][C14_Step]_vars

C14_Witness ==
    /\ BadTestTypeGroup
    /\ CurGroup.testType = "KAT"
    /\ GroupRejectedWith(ACVP_INVALID_ARG)

(***************************************************************************)
(* C15: for an AFT or VOT test case on SHAKE (with a msg within the        *)
(* maximum), an outLen that is absent or outside                           *)
(* [ACVP_HASH_XOF_MD_BIT_MIN, ACVP_HASH_XOF_MD_BIT_MAX] ends the handler   *)
(* with ACVP_INVALID_ARG; the step that reads the case creates no context  *)
(* and calls no engine.                                                    *)
(***************************************************************************)
ShakeDirectCase ==
    /\ HasCurTest
    /\ IsShake(env.alg)
    /\ h.test_type \in {ACVP_HASH_TEST_TYPE_AFT, ACVP_HASH_TEST_TYPE_VOT}
    /\ CurTest.has_msg
    /\ Len(CurTest.msg) <= ACVP_SHAKE_MSG_STR_MAX

BadOutLenCase == ShakeDirectCase /\ ~InXofBounds(CurTest.outLen)

C15_State == BadOutLenCase => CaseRejectedWith(ACVP_INVALID_ARG)

C15_Step ==
    (TestsRead' = TestsRead + 1 /\ BadOutLenCase')
      => /\ gh' = gh
         /\ stc' = stc

C15_OutLen == []C15_State /\ [][C15_Step]_vars

\* the two cases: outLen absent (read as 0) and outLen above the maximum
C15_Witness ==
    /\ BadOutLenCase
    /\ CurTest.outLen = 0
    /\ CaseRejectedWith(ACVP_INVALID_ARG)

(***************************************************************************)
(* C16 as stated: at the first engine call of every outer iteration of     *)
(* classic MCT, in both variants and for every accepted message length,    *)
(* each of the three slots holds exactly the bytes of the current seed and *)
(* has the seed's length; the seed is the case's input message on outer    *)
(* iteration 0 and the previous iteration's recorded digest afterwards.    *)
(***************************************************************************)
\* the engine is about to be called for the first time in outer iteration mct.i
ClassicFirstCall == ClassicRun /\ h.pc = "classic_round" /\ mct.j = 0

CurrentSeed == IF mct.i = 0 THEN InputMsg ELSE HexToBytes(Results[mct.i].md)

SlotHolds(buf, len, bytes) == len = Len(bytes) /\ Take(buf, len) = bytes

C16_AsStated ==
    ClassicFirstCall =>
      /\ SlotHolds(stc.m1, stc.m1_len, CurrentSeed)
      /\ SlotHolds(stc.m2, stc.m2_len, CurrentSeed)
      /\ SlotHolds(stc.m3, stc.m3_len, CurrentSeed)

(***************************************************************************)
(* C17: in classic MCT, after every inner round that succeeds slot1 holds  *)
(* the previous contents and length of slot2, slot2 those of slot3, and    *)
(* slot3 the digest the engine just computed from the three slots, with    *)
(* its length; after the last round of an outer iteration the recorded     *)
(* digest equals slot3 and is the seed (bytes and length) of the next      *)
(* outer iteration.                                                        *)
(***************************************************************************)
Slot1 == Take(stc.m1, stc.m1_len)

Slot2 == Take(stc.m2, stc.m2_len)

Slot3 == Take(stc.m3, stc.m3_len)

Digest == Take(stc.md, stc.md_len)

\* a step that is an inner round of classic MCT and succeeds
ClassicRoundSucceeds ==
    /\ h.pc = "classic_round"
    /\ h'.pc \in {"classic_round", "classic_out"}

C17_Round ==
    ClassicRoundSucceeds =>
      /\ Digest' = H(env.salt, MctMsg(Slot1, Slot2, Slot3, stc.mct_version, stc.msg_len), DigestLen)
      /\ Slot1' = Slot2 /\ stc'.m1_len = stc.m2_len
      /\ Slot2' = Slot3 /\ stc'.m2_len = stc.m3_len
      /\ Slot3' = Digest' /\ stc'.m3_len = stc'.md_len
      /\ mct'.j = mct.j + 1
      /\ h'.pc = "classic_out" <=> mct'.j = ACVP_HASH_MCT_INNER

\* a step that appends the record of an outer iteration of classic MCT
C17_Out ==
    (h.pc = "classic_out" /\ Len(Results') = Len(Results) + 1) =>
      /\ Results'[Len(Results')].md = Hex(Slot3)
      /\ Digest = Slot3
      /\ mct'.seed = "md" /\ mct'.seed_len = stc.md_len
      /\ stc' = stc

\* the seed of an outer iteration after the first is the recorded digest
C17_Seed ==
    (h.pc = "classic_seed" /\ mct.i > 0) =>
      /\ Take(SeedBuf(stc, mct), mct.seed_len) = HexToBytes(Results[mct.i].md)
      /\ mct.seed_len = Len(HexToBytes(Results[mct.i].md))
      /\ Len(Results) = mct.i

C17_Rotation == []C17_Seed /\ [][C17_Round /\ C17_Out]_vars

C17_Witness ==
    /\ h.pc = "classic_seed"
    /\ mct.i > 0
    /\ Results[mct.i].md = Hex(Slot3)
    /\ Slot1 # Slot2 /\ Slot2 # Slot3

(***************************************************************************)
(* C18: in classic MCT, when the engine call of an inner round has         *)
(* succeeded and one of the three rotation copies exceeds the copy bound   *)
(* of the variant (the length of slot2, of slot3 or of the digest is       *)
(* greater than mct_buffer_size), the run returns ACVP_INTERNAL_ERR, not   *)
(* ACVP_CRYPTO_MODULE_FAIL, the record of the outer iteration is freed and *)
(* not appended, and no engine call follows: the handler returns the same  *)
(* code and stops.                                                         *)
(***************************************************************************)
\* a step that is an inner round whose engine call succeeds and whose
\* rotation has a copy longer than the bound
RotationExceeds ==
    /\ h.pc = "classic_round"
    /\ ~gh'.efail
    /\ \/ stc.m2_len > mct.mct_buffer_size
       \/ stc.m3_len > mct.mct_buffer_size
       \/ stc'.md_len > mct.mct_buffer_size

C18_Round ==
    RotationExceeds =>
      /\ gh'.ncalls = gh.ncalls + 1
      /\ h'.pc = "mct_ret"
      /\ mct'.rv = ACVP_INTERNAL_ERR
      /\ Results' = Results
      /\ Len(Results') = mct.i
      /\ js'.st.r = "freed"

\* after the run returned ACVP_INTERNAL_ERR
C18_After ==
    /\ h.pc # "done"
    /\ (h.pc = "mct_ret" /\ mct.rv = ACVP_INTERNAL_ERR)
         => /\ h'.pc = "done"
            /\ h'.rv = ACVP_INTERNAL_ERR
            /\ gh'.ncalls = gh.ncalls

C18_RotationRefused == [][C18_Round /\ C18_After]_vars

C18_Witness ==
    /\ ClassicRun
    /\ h.pc = "mct_ret"
    /\ mct.rv = ACVP_INTERNAL_ERR
    /\ stc.m1_len > mct.mct_buffer_size
    /\ gh.ncalls = 1
    /\ Results = <<>>

(***************************************************************************)
(* C19: in SHA-3 MCT, on every pass i in 1..ACVP_HASH_MCT_INNER the        *)
(* message is replaced by the previous digest before any engine call: in   *)
(* the standard variant the message is the digest, with its length; in the *)
(* alternate variant it has the length of the original seed and holds the  *)
(* first min(digest length, seed length) digest bytes followed by zero     *)
(* bytes.  The last pass only replaces the message and calls no engine, so *)
(* the record of the iteration is the digest of the pass before it, and    *)
(* pass 0 of the next outer iteration hashes the message built from that   *)
(* recorded digest.                                                        *)
(***************************************************************************)
Message == Take(stc.msg, stc.msg_len)

\* the message the claim describes, built from the digest md
Sha3NextMsg(md, version, seed_len) ==
    IF version = ACVP_HASH_MCT_VERSION_ALTERNATE
      THEN [k \in 1..seed_len |-> IF k <= Min(Len(md), seed_len) THEN md[k] ELSE 0]
      ELSE md

C19_Pass ==
    (h.pc = "sha3_pass" /\ mct.i >= 1) =>
      /\ Message' = Sha3NextMsg(Digest, stc.mct_version, Len(InputMsg))
      /\ stc'.msg_len = Len(Message')
      /\ IF mct.i = ACVP_HASH_MCT_INNER
           THEN /\ gh' = gh
                /\ Digest' = Digest
                /\ h'.pc = "sha3_out"
           ELSE /\ gh'.ncalls = gh.ncalls + 1
                /\ gh'.emsg = Message'

\* pass 0 hashes the message as the previous pass (or the test case) left it
C19_Pass0 ==
    (h.pc = "sha3_pass" /\ mct.i = 0) =>
      /\ gh'.ncalls = gh.ncalls + 1
      /\ gh'.emsg = Message
      /\ Message' = Message

\* the record appended is the digest the last pass left, and the message of
\* the next outer iteration is the one built from it
C19_Out ==
    (h.pc = "sha3_out" /\ Len(Results') = Len(Results) + 1) =>
      /\ Results'[Len(Results')].md = Hex(Digest)
      /\ Message' = Sha3NextMsg(Digest, stc.mct_version, Len(InputMsg))
      /\ stc' = stc

C19_Sha3Message == [][C19_Pass /\ C19_Pass0 /\ C19_Out]_vars

\* second outer iteration, alternate variant, seed longer than the digest:
\* the message is the recorded digest followed by zero bytes
C19_Witness ==
    /\ h.pc = "sha3_pass"
    /\ mct.j = 1 /\ mct.i = 0
    /\ stc.mct_version = ACVP_HASH_MCT_VERSION_ALTERNATE
    /\ Len(InputMsg) > stc.md_len
    /\ Message = HexToBytes(Results[1].md) \o Zeros(Len(InputMsg) - stc.md_len)

(***************************************************************************)
(* C20 as stated: in SHAKE MCT, on every pass i in 1..ACVP_HASH_MCT_INNER  *)
(* the message is rebuilt from the previous digest before any engine call: *)
(* it is the leftmost 16 bytes of that digest when the digest has at least *)
(* 16 bytes and the full previous digest when it is shorter; on the last   *)
(* pass the rebuild happens and no engine call follows.                    *)
(***************************************************************************)
\* a step that is pass i >= 1 of the inner loop of acvp_hash_shake_mct
ShakeRebuildPass == h.pc = "shake_pass" /\ mct.i >= 1

\* the last pass calls no engine and leaves the digest; the others call it
\* on the rebuilt message
ShakePassCalls ==
    IF mct.i = ACVP_HASH_MCT_INNER
      THEN /\ gh' = gh
           /\ Digest' = Digest
           /\ h'.pc = "shake_out"
      ELSE /\ gh'.ncalls = gh.ncalls + 1
           /\ gh'.emsg = Message'

C20_AsStated_Step ==
    ShakeRebuildPass =>
      /\ Message' = IF stc.md_len >= leftmost_bytes THEN Take(Digest, leftmost_bytes)
                    ELSE Digest
      /\ ShakePassCalls

C20_AsStated == [][C20_AsStated_Step]_vars

(***************************************************************************)
(* C20 amended: on every pass i in 1..ACVP_HASH_MCT_INNER the message is   *)
(* rebuilt from the previous digest before any engine call and is always   *)
(* 16 bytes long: the leftmost 16 bytes of the digest when it has at least *)
(* 16 bytes, and the whole digest followed by zero bytes when it is        *)
(* shorter.  On the last pass the rebuild happens and no engine call       *)
(* follows, so the record is the digest of the pass before it and the next *)
(* outer iteration starts from the message built from that digest.         *)
(***************************************************************************)
C20_Pass ==
    ShakeRebuildPass =>
      /\ Message' = FitTo(Digest, leftmost_bytes)
      /\ stc'.msg_len = leftmost_bytes
      /\ ShakePassCalls

C20_Out ==
    (h.pc = "shake_out" /\ Len(Results') = Len(Results) + 1) =>
      /\ Results'[Len(Results')].md = Hex(Digest)
      /\ Message' = FitTo(Digest, leftmost_bytes)
      /\ stc' = stc

C20_Amended == [][C20_Pass /\ C20_Out]_vars

\* after the last pass, with a digest shorter than 16 bytes
C20_Witness ==
    /\ h.pc = "shake_out"
    /\ stc.md_len < leftmost_bytes
    /\ Message = Digest \o Zeros(leftmost_bytes - stc.md_len)
    /\ Message # Digest

(***************************************************************************)
(* C21: in SHAKE MCT, the record of an outer iteration carries the digest  *)
(* of the last computed pass (pass ACVP_HASH_MCT_INNER - 1) and its outLen *)
(* is 8 times the byte length requested for that pass, not the length      *)
(* derived from that digest for the following pass; the length requested   *)
(* on pass 0 of the next outer iteration is the one derived from that      *)
(* digest, and the length requested on pass 0 of outer iteration 0 is      *)
(* floor(maxOutLen / 8).                                                   *)
(***************************************************************************)
\* the length the code derives from the digest held in the context
DerivedXofLen ==
    NextXofLen(mct.min_xof_bytes, mct.range, RightmostOutBits(stc.md, stc.md_len, env.host_le))

\* after the last pass: the digest is that of the last engine call, which
\* was call ACVP_HASH_MCT_INNER of the iteration
C21_LastPass ==
    h.pc = "shake_out" =>
      /\ gh.calls[Len(gh.calls)] = ACVP_HASH_MCT_INNER
      /\ Digest = H(env.salt, gh.emsg, gh.elen)
      /\ stc.md_len = gh.elen
      /\ stc.xof_len = DerivedXofLen

C21_Out ==
    (h.pc = "shake_out" /\ Len(Results') = Len(Results) + 1) =>
      /\ Results'[Len(Results')].md = Hex(Digest)
      /\ Results'[Len(Results')].outLen = 8 * gh.elen
      /\ stc' = stc

C21_Pass0 ==
    (h.pc = "shake_pass" /\ mct.i = 0) =>
      /\ gh'.ncalls = gh.ncalls + 1
      /\ gh'.elen = stc.xof_len
      /\ mct.j = 0 => gh'.elen = CurGroup.maxOutLen \div 8
      /\ mct.j > 0 => /\ Digest = HexToBytes(Results[mct.j].md)
                      /\ stc.xof_len = DerivedXofLen

C21_ShakeRecord == []C21_LastPass /\ [][C21_Out /\ C21_Pass0]_vars

\* second outer iteration about to start: the record carries the length
\* used, which differs from the length derived for pass 0
C21_Witness ==
    /\ h.pc = "shake_pass"
    /\ mct.j = 1 /\ mct.i = 0
    /\ Results[1].outLen = 8 * gh.elen
    /\ stc.xof_len # gh.elen
    /\ stc.xof_len = DerivedXofLen

(***************************************************************************)
(* C22 as stated: in SHAKE MCT, pass 0 of the first outer iteration gives  *)
(* the hash engine the test case's original message unchanged: the decoded *)
(* input bytes with the decoded input length, for every accepted input     *)
(* message length.  (gh.emsg is the message the engine read at its last    *)
(* call.)                                                                  *)
(***************************************************************************)
\* pass 0 of outer iteration 0 has just been computed
ShakeFirstPassDone == ShakeRun /\ h.pc = "shake_pass" /\ mct.j = 0 /\ mct.i = 1

C22_AsStated == ShakeFirstPassDone => gh.emsg = InputMsg

(***************************************************************************)
(* C23: acvp_hash_init_tc allocates the three chaining buffers if and only *)
(* if the case is an MCT case on a SHA-1/SHA-2 algorithm (all three with   *)
(* the same capacity), gives the digest buffer the XOF maximum capacity    *)
(* exactly for VOT cases and SHAKE MCT cases, and chooses every capacity   *)
(* from the algorithm family and the test type alone; from init to release *)
(* no MCT engine step, engine call or output step changes a capacity.      *)
(* The capacities expected are written out here, from the group's testType *)
(* and the algorithm; a buffer that is not allocated has capacity 0.       *)
(***************************************************************************)
\* a context exists: acvp_hash_init_tc succeeded and release has not run
ContextLive == h.pc = "ready" \/ InMct \/ h.pc = "ub"

CaseIsClassicMct == CurGroup.testType = "MCT" /\ ~IsSha3(env.alg) /\ ~IsShake(env.alg)

CaseHasXofDigest ==
    CurGroup.testType = "VOT" \/ (CurGroup.testType = "MCT" /\ IsShake(env.alg))

ExpectedCapacity(b) ==
    IF b = "msg"
      THEN IF IsShake(env.alg) THEN ACVP_SHAKE_MSG_BYTE_MAX ELSE ACVP_HASH_MSG_BYTE_MAX
    ELSE IF b = "md"
      THEN IF CaseHasXofDigest THEN ACVP_HASH_XOF_MD_BYTE_MAX
           ELSE IF CaseIsClassicMct THEN ACVP_HASH_MSG_BYTE_MAX
           ELSE ACVP_HASH_MD_BYTE_MAX
    ELSE IF CaseIsClassicMct THEN ACVP_HASH_MSG_BYTE_MAX ELSE 0

C23_State ==
    ContextLive =>
      /\ \A b \in Bufs : Len(stc[b]) = ExpectedCapacity(b)
      /\ (Len(stc.m1) > 0 /\ Len(stc.m2) > 0 /\ Len(stc.m3) > 0) <=> CaseIsClassicMct
      /\ Len(stc.md) = ACVP_HASH_XOF_MD_BYTE_MAX <=> CaseHasXofDigest

\* a step taken with the context in place on both sides keeps every capacity
C23_Step ==
    (ContextLive /\ ContextLive') => \A b \in Bufs : Len(stc'[b]) = Len(stc[b])

C23_Capacities == []C23_State /\ [][C23_Step]_vars

\* classic MCT after a whole inner loop: three chaining buffers in place
C23_Witness ==
    /\ h.pc = "classic_out"
    /\ CaseIsClassicMct
    /\ Len(stc.m1) = ACVP_HASH_MSG_BYTE_MAX
    /\ Len(stc.m3) = Len(stc.m1)
    /\ Len(stc.md) # ACVP_HASH_XOF_MD_BYTE_MAX

(***************************************************************************)
(* C24: a test case whose message hex string is longer than the maximum    *)
(* for its algorithm family (ACVP_SHAKE_MSG_STR_MAX for SHAKE,             *)
(* ACVP_HASH_MSG_STR_MAX for every other algorithm and for every LDT       *)
(* content) ends the handler with ACVP_INVALID_ARG before a context is     *)
(* created; so in every context the decoded message lies within the msg    *)
(* buffer allocated by acvp_hash_init_tc.                                  *)
(***************************************************************************)
ExpectedMsgMax ==
    IF IsShake(env.alg) /\ h.test_type # ACVP_HASH_TEST_TYPE_LDT
      THEN ACVP_SHAKE_MSG_STR_MAX ELSE ACVP_HASH_MSG_STR_MAX

LongMsgCase == HasCurTest /\ CurTest.has_msg /\ Len(CurTest.msg) > ExpectedMsgMax

C24_Rejected == LongMsgCase => CaseRejectedWith(ACVP_INVALID_ARG)

C24_Fits ==
    ContextLive =>
      /\ Len(CurTest.msg) <= ExpectedMsgMax
      /\ Len(InputMsg) <= Len(stc.msg)
      /\ h.pc = "ready" => Take(stc.msg, Len(InputMsg)) = InputMsg

C24_Step ==
    (TestsRead' = TestsRead + 1 /\ LongMsgCase') => (gh' = gh /\ stc' = stc)

C24_MsgMax == [](C24_Rejected /\ C24_Fits) /\ [][C24_Step]_vars

C24_Witness ==
    /\ LongMsgCase
    /\ ~IsShake(env.alg)
    /\ Len(CurTest.msg) <= ACVP_SHAKE_MSG_STR_MAX
    /\ CaseRejectedWith(ACVP_INVALID_ARG)

(***************************************************************************)
(* C25 as stated: at every hash-engine call on a SHAKE algorithm (AFT, VOT *)
(* and every computed pass of SHAKE MCT), for every input the handler      *)
(* accepts, the requested output length in bytes (stc->xof_len) does not   *)
(* exceed the capacity of the digest buffer allocated for the test case.   *)
(***************************************************************************)
\* the next step of the handler calls the engine on a SHAKE algorithm
ShakeCallNext ==
    /\ IsShake(env.alg)
    /\ \/ h.pc = "ready" /\ stc.test_type # ACVP_HASH_TEST_TYPE_MCT
       \/ h.pc = "shake_pass" /\ mct.i < ACVP_HASH_MCT_INNER

C25_AsStated == ShakeCallNext => stc.xof_len <= Len(stc.md)

(***************************************************************************)
(* C26 as stated: in SHAKE MCT, for every group the handler accepts and an *)
(* engine that returns exactly the requested number of bytes, the digest   *)
(* has at least 2 bytes after every computed pass, so the read of          *)
(* md[md_len-2] and md[md_len-1] stays inside the digest.                  *)
(***************************************************************************)
\* the last engine call of a SHAKE MCT run succeeded and wrote its digest
ShakeDigestComputed ==
    /\ IsShake(env.alg)
    /\ stc.test_type = ACVP_HASH_TEST_TYPE_MCT
    /\ h.pc \in {"shake_pass", "shake_out", "ub"}
    /\ gh.ub # "md overflow"
    /\ Len(gh.calls) > 0
    /\ gh.calls[Len(gh.calls)] > 0

C26_AsStated == ShakeDigestComputed => stc.md_len >= 2

(***************************************************************************)
(* C27: in SHAKE MCT, the message given to the hash engine is 16 bytes     *)
(* long on every engine call of every outer iteration, whatever the length *)
(* of the input message and of the previous digest; a previous digest      *)
(* shorter than 16 bytes is followed by zero bytes up to 16.               *)
(***************************************************************************)
\* a step of acvp_hash_shake_mct that calls the engine
ShakeCalls == h.pc = "shake_pass" /\ gh'.ncalls = gh.ncalls + 1

C27_Call ==
    ShakeCalls =>
      /\ Len(gh'.emsg) = leftmost_bytes
      /\ stc'.msg_len = leftmost_bytes
      /\ (mct.i >= 1 /\ stc.md_len < leftmost_bytes)
           => gh'.emsg = Digest \o Zeros(leftmost_bytes - stc.md_len)

\* engine calls of the handler in a SHAKE MCT case are made by that engine
C27_Only ==
    (IsShake(env.alg) /\ h.test_type = ACVP_HASH_TEST_TYPE_MCT /\ gh'.ncalls # gh.ncalls)
      => ShakeCalls

C27_MsgLen == [][C27_Call /\ C27_Only]_vars

\* second outer iteration, input message not of 16 bytes, short digest
C27_Witness ==
    /\ h.pc = "shake_pass"
    /\ mct.j = 1 /\ mct.i = 1
    /\ Len(InputMsg) # leftmost_bytes
    /\ stc.md_len < leftmost_bytes
    /\ Len(gh.emsg) = leftmost_bytes

(***************************************************************************)
(* C28: a group whose tgId is absent or 0 ends the handler with            *)
(* ACVP_MALFORMED_JSON before the group's testType is read and before any  *)
(* of its test cases is processed; the response group created for it is    *)
(* freed, not appended to the response.                                    *)
(***************************************************************************)
NoTgIdGroup == Len(doc) > 0 /\ CurGroup.tgId = 0

C28_State ==
    NoTgIdGroup =>
      /\ GroupRejectedWith(ACVP_MALFORMED_JSON)
      /\ h.test_type = "0"
      /\ js.st.g = "freed"
      /\ js.st.vs = "freed"
      /\ Len(js.r_garr) = Len(doc) - 1
      /\ js.reg_arry = <<>>

C28_Step ==
    (Len(doc') = Len(doc) + 1 /\ NoTgIdGroup') => (gh' = gh /\ stc' = stc)

C28_NoTgId == []C28_State /\ [][C28_Step]_vars

\* the second group of a document has no tgId; the first one was appended
C28_Witness ==
    /\ NoTgIdGroup
    /\ Len(doc) = 2
    /\ Len(js.r_garr) = 1
    /\ h.rv = ACVP_MALFORMED_JSON
    /\ js.st.g = "freed"

=============================================================================
